---------------------------- MODULE Spec2Model ----------------------------
(***************************************************************************)
(* RISC-V instruction decoder (core Decoder), with the encoder it is       *)
(* paired with.                                                            *)
(*                                                                         *)
(* Binary text is modelled as it is in the source: a string of the         *)
(* characters '0' and '1', most significant bit first.  Fields are cut out *)
(* with getBits, immediates are parsed with decImm, table keys are the     *)
(* concatenated binary texts.                                              *)
(***************************************************************************)
EXTENDS Integers, Sequences, FiniteSets, TLC

VARIABLES bin, config, res, immText, immSign, immOut,
          ResultState, containerHtml, labelText, locationHash,
          inputValue, boxDisplay, lastKey, loaded

\* the state of the page
page == <<ResultState, containerHtml, labelText, locationHash,
          inputValue, boxDisplay, lastKey, loaded>>

vars == <<bin, config, res, immText, immSign, immOut, page>>

---------------------------------------------------------------------------
(* Bounds of the model *)

\* registers / five-bit slots are drawn from 0..MaxReg
MaxReg == 1
\* decImm is applied to every binary text of length 1..MaxImmLen
MaxImmLen == 12

---------------------------------------------------------------------------
(* Text helpers *)

\* s[i] of a string, as a one-character string
Char(s, i) == SubSeq(s, i, i)

\* the value of one binary digit
BitVal(c) == IF c = "1" THEN 1 ELSE 0

\* parseInt(text, BASE.bin)
RECURSIVE ParseBin(_)
ParseBin(s) ==
  IF Len(s) = 0 THEN 0
  ELSE 2 * ParseBin(SubSeq(s, 1, Len(s) - 1)) + BitVal(Char(s, Len(s)))

\* n.toString(2).padStart(w, '0'), for 0 <= n < 2^w
RECURSIVE ToBin(_, _)
ToBin(n, w) ==
  IF w = 0 THEN ""
  ELSE ToBin(n \div 2, w - 1) \o (IF n % 2 = 1 THEN "1" ELSE "0")

\* one hexadecimal digit
HexDigit(d) ==
  CASE d < 10 -> ToString(d)
    [] d = 10 -> "a" [] d = 11 -> "b" [] d = 12 -> "c"
    [] d = 13 -> "d" [] d = 14 -> "e" [] OTHER  -> "f"

\* val.toString(16).padStart(3, '0'), for 0 <= val < 4096
Hex3(val) ==
  HexDigit(val \div 256) \o HexDigit((val \div 16) % 16) \o HexDigit(val % 16)

\* JavaScript's (1 << n) on 32-bit integers: the shift count is taken mod 32
\* and the result is a signed 32-bit value
Shl1(n) ==
  LET k == n % 32
  IN  IF k = 31 THEN -(2 ^ 31) ELSE 2 ^ k

---------------------------------------------------------------------------
(* Constants.js: opcodes and field descriptors *)

OPCODE ==
  [ LOAD      |-> "0000011", LOAD_FP  |-> "0000111", MISC_MEM |-> "0001111",
    OP_IMM    |-> "0010011", AUIPC    |-> "0010111", OP_IMM_32 |-> "0011011",
    STORE     |-> "0100011", STORE_FP |-> "0100111", AMO      |-> "0101111",
    OP        |-> "0110011", LUI      |-> "0110111", OP_32    |-> "0111011",
    MADD      |-> "1000011", MSUB     |-> "1000111", NMSUB    |-> "1001011",
    NMADD     |-> "1001111", OP_FP    |-> "1010011", BRANCH   |-> "1100011",
    JALR      |-> "1100111", JAL      |-> "1101111", SYSTEM   |-> "1110011" ]

\* pos is <<high bit, width>>, bit 0 being the least significant
FIELDS ==
  [ opcode      |-> [pos |-> <<6, 7>>,   name |-> "opcode"],
    rd          |-> [pos |-> <<11, 5>>,  name |-> "rd"],
    funct3      |-> [pos |-> <<14, 3>>,  name |-> "funct3"],
    rs1         |-> [pos |-> <<19, 5>>,  name |-> "rs1"],
    rs2         |-> [pos |-> <<24, 5>>,  name |-> "rs2"],
    r_funct5    |-> [pos |-> <<31, 5>>,  name |-> "funct5"],
    r_funct7    |-> [pos |-> <<31, 7>>,  name |-> "funct7"],
    r_aq        |-> [pos |-> <<26, 1>>,  name |-> "aq"],
    r_rl        |-> [pos |-> <<25, 1>>,  name |-> "rl"],
    r_fp_fmt    |-> [pos |-> <<26, 2>>,  name |-> "fmt"],
    i_imm_11_0  |-> [pos |-> <<31, 12>>, name |-> "imm[11:0]"],
    i_shtyp_11_6 |-> [pos |-> <<31, 6>>, name |-> "shtyp[11:6]"],
    i_shtyp_11_5 |-> [pos |-> <<31, 7>>, name |-> "shtyp[11:5]"],
    i_shtyp     |-> [pos |-> <<30, 1>>,  name |-> "shtyp"],
    i_shamt_5   |-> [pos |-> <<25, 1>>,  name |-> "shamt[5]"],
    i_shamt_5_0 |-> [pos |-> <<25, 6>>,  name |-> "shamt[5:0]"],
    i_shamt     |-> [pos |-> <<24, 5>>,  name |-> "shamt[4:0]"],
    i_funct12   |-> [pos |-> <<31, 12>>, name |-> "funct12"],
    i_csr       |-> [pos |-> <<31, 12>>, name |-> "csr"],
    i_imm_4_0   |-> [pos |-> <<19, 5>>,  name |-> "imm[4:0]"],
    i_fm        |-> [pos |-> <<31, 4>>,  name |-> "fm"],
    i_pred      |-> [pos |-> <<27, 4>>,  name |-> "pred"],
    i_succ      |-> [pos |-> <<23, 4>>,  name |-> "succ"],
    s_imm_4_0   |-> [pos |-> <<11, 5>>,  name |-> "imm[4:0]"],
    s_imm_11_5  |-> [pos |-> <<31, 7>>,  name |-> "imm[11:5]"],
    b_imm_4_1   |-> [pos |-> <<11, 4>>,  name |-> "imm[4:1]"],
    b_imm_11    |-> [pos |-> <<7, 1>>,   name |-> "imm[11]"],
    b_imm_10_5  |-> [pos |-> <<30, 6>>,  name |-> "imm[10:5]"],
    b_imm_12    |-> [pos |-> <<31, 1>>,  name |-> "imm[12]"],
    u_imm_31_12 |-> [pos |-> <<31, 20>>, name |-> "imm[31:12]"],
    j_imm_20    |-> [pos |-> <<31, 1>>,  name |-> "imm[20]"],
    j_imm_10_1  |-> [pos |-> <<30, 10>>, name |-> "imm[10:1]"],
    j_imm_11    |-> [pos |-> <<20, 1>>,  name |-> "imm[11]"],
    j_imm_19_12 |-> [pos |-> <<19, 8>>,  name |-> "imm[19:12]"] ]

\* configuration options (Config.js)
COPTS_ISA == [RV32I |-> "RV32I", RV64I |-> "RV64I"]

---------------------------------------------------------------------------
(* Constants.js: dispatch tables.  A table entry is either a mnemonic      *)
(* (a string in the source) or a nested table.                             *)

\* the absent entry of a table lookup (JavaScript's undefined)
Undefined == [str |-> TRUE, mne |-> "undefined", sub |-> <<>>]

\* a table entry that is a mnemonic
M(m) == [str |-> TRUE, mne |-> m, sub |-> <<>>]

\* a table entry that is a nested table
T(t) == [str |-> FALSE, mne |-> "", sub |-> t]

\* table[key], undefined when the key is absent
Lookup(table, key) ==
  IF key \in DOMAIN table THEN table[key] ELSE Undefined

ISA_OP ==
     "0000000000" :> M("add")  @@ "0100000000" :> M("sub")
  @@ "0000000001" :> M("sll")  @@ "0000000010" :> M("slt")
  @@ "0000000011" :> M("sltu") @@ "0000000100" :> M("xor")
  @@ "0000000101" :> M("srl")  @@ "0100000101" :> M("sra")
  @@ "0000000110" :> M("or")   @@ "0000000111" :> M("and")
  @@ "0000001000" :> M("mul")  @@ "0000001001" :> M("mulh")
  @@ "0000001010" :> M("mulhsu") @@ "0000001011" :> M("mulhu")
  @@ "0000001100" :> M("div")  @@ "0000001101" :> M("divu")
  @@ "0000001110" :> M("rem")  @@ "0000001111" :> M("remu")

ISA_OP_32 ==
     "0000000000" :> M("addw") @@ "0100000000" :> M("subw")
  @@ "0000000001" :> M("sllw") @@ "0000000101" :> M("srlw")
  @@ "0100000101" :> M("sraw")
  @@ "0000001000" :> M("mulw") @@ "0000001100" :> M("divw")
  @@ "0000001101" :> M("divuw") @@ "0000001110" :> M("remw")
  @@ "0000001111" :> M("remuw")

ISA_LOAD ==
     "000" :> M("lb")  @@ "001" :> M("lh")  @@ "010" :> M("lw")
  @@ "011" :> M("ld")  @@ "100" :> M("lbu") @@ "101" :> M("lhu")
  @@ "110" :> M("lwu")

ISA_STORE ==
  "000" :> M("sb") @@ "001" :> M("sh") @@ "010" :> M("sw") @@ "011" :> M("sd")

ISA_OP_IMM ==
     "000" :> M("addi")  @@ "001" :> M("slli") @@ "010" :> M("slti")
  @@ "011" :> M("sltiu") @@ "100" :> M("xori")
  @@ "101" :> T("0" :> M("srli") @@ "1" :> M("srai"))
  @@ "110" :> M("ori")   @@ "111" :> M("andi")

ISA_OP_IMM_32 ==
     "000" :> M("addiw") @@ "001" :> M("slliw")
  @@ "101" :> T("0" :> M("srliw") @@ "1" :> M("sraiw"))

ISA_BRANCH ==
     "000" :> M("beq") @@ "001" :> M("bne")  @@ "100" :> M("blt")
  @@ "101" :> M("bge") @@ "110" :> M("bltu") @@ "111" :> M("bgeu")

ISA_MISC_MEM == "000" :> M("fence") @@ "001" :> M("fence.i")

ISA_SYSTEM ==
     "000" :> T("000000000000" :> M("ecall") @@ "000000000001" :> M("ebreak"))
  @@ "001" :> M("csrrw")  @@ "010" :> M("csrrs")  @@ "011" :> M("csrrc")
  @@ "101" :> M("csrrwi") @@ "110" :> M("csrrsi") @@ "111" :> M("csrrci")

ISA_AMO ==
     "00010010" :> M("lr.w")      @@ "00011010" :> M("sc.w")
  @@ "00001010" :> M("amoswap.w") @@ "00000010" :> M("amoadd.w")
  @@ "00100010" :> M("amoxor.w")  @@ "01100010" :> M("amoand.w")
  @@ "01000010" :> M("amoor.w")   @@ "10000010" :> M("amomin.w")
  @@ "10100010" :> M("amomax.w")  @@ "11000010" :> M("amominu.w")
  @@ "11100010" :> M("amomaxu.w")
  @@ "00010011" :> M("lr.d")      @@ "00011011" :> M("sc.d")
  @@ "00001011" :> M("amoswap.d") @@ "00000011" :> M("amoadd.d")
  @@ "00100011" :> M("amoxor.d")  @@ "01100011" :> M("amoand.d")
  @@ "01000011" :> M("amoor.d")   @@ "10000011" :> M("amomin.d")
  @@ "10100011" :> M("amomax.d")  @@ "11000011" :> M("amominu.d")
  @@ "11100011" :> M("amomaxu.d")

ISA_LOAD_FP == "010" :> M("flw") @@ "011" :> M("fld")

ISA_STORE_FP == "010" :> M("fsw") @@ "011" :> M("fsd")

\* ISA_OP_FP[funct5][fmt]: a mnemonic, a table keyed by funct3, or a table
\* keyed by rs2
ISA_OP_FP ==
     "00000" :> ("00" :> M("fadd.s") @@ "01" :> M("fadd.d"))
  @@ "00001" :> ("00" :> M("fsub.s") @@ "01" :> M("fsub.d"))
  @@ "00010" :> ("00" :> M("fmul.s") @@ "01" :> M("fmul.d"))
  @@ "00011" :> ("00" :> M("fdiv.s") @@ "01" :> M("fdiv.d"))
  @@ "01011" :> ("00" :> M("fsqrt.s") @@ "01" :> M("fsqrt.d"))
  @@ "00100" :>
       (   "00" :> T("000" :> M("fsgnj.s") @@ "001" :> M("fsgnjn.s")
                     @@ "010" :> M("fsgnjx.s"))
        @@ "01" :> T("000" :> M("fsgnj.d") @@ "001" :> M("fsgnjn.d")
                     @@ "010" :> M("fsgnjx.d")))
  @@ "00101" :>
       (   "00" :> T("000" :> M("fmin.s") @@ "001" :> M("fmax.s"))
        @@ "01" :> T("000" :> M("fmin.d") @@ "001" :> M("fmax.d")))
  @@ "01000" :>
       (   "00" :> T("00001" :> M("fcvt.s.d"))
        @@ "01" :> T("00000" :> M("fcvt.d.s")))
  @@ "10100" :>
       (   "00" :> T("010" :> M("feq.s") @@ "001" :> M("flt.s")
                     @@ "000" :> M("fle.s"))
        @@ "01" :> T("010" :> M("feq.d") @@ "001" :> M("flt.d")
                     @@ "000" :> M("fle.d")))
  @@ "11000" :>
       (   "00" :> T("00000" :> M("fcvt.w.s") @@ "00001" :> M("fcvt.wu.s")
                     @@ "00010" :> M("fcvt.l.s") @@ "00011" :> M("fcvt.lu.s"))
        @@ "01" :> T("00000" :> M("fcvt.w.d") @@ "00001" :> M("fcvt.wu.d")
                     @@ "00010" :> M("fcvt.l.d") @@ "00011" :> M("fcvt.lu.d")))
  @@ "11010" :>
       (   "00" :> T("00000" :> M("fcvt.s.w") @@ "00001" :> M("fcvt.s.wu")
                     @@ "00010" :> M("fcvt.s.l") @@ "00011" :> M("fcvt.s.lu"))
        @@ "01" :> T("00000" :> M("fcvt.d.w") @@ "00001" :> M("fcvt.d.wu")
                     @@ "00010" :> M("fcvt.d.l") @@ "00011" :> M("fcvt.d.lu")))
  @@ "11100" :>
       (   "00" :> T("000" :> M("fmv.x.w") @@ "001" :> M("fclass.s"))
        @@ "01" :> T("000" :> M("fmv.x.d") @@ "001" :> M("fclass.d")))
  @@ "11110" :> ("00" :> M("fmv.w.x") @@ "01" :> M("fmv.d.x"))

ISA_MADD  == "00" :> M("fmadd.s")  @@ "01" :> M("fmadd.d")

ISA_MSUB  == "00" :> M("fmsub.s")  @@ "01" :> M("fmsub.d")

ISA_NMADD == "00" :> M("fnmadd.s") @@ "01" :> M("fnmadd.d")

ISA_NMSUB == "00" :> M("fnmsub.s") @@ "01" :> M("fnmsub.d")


---------------------------------------------------------------------------
(* Constants.js: the ISA table, one entry per mnemonic *)

\* the mnemonics of a flat table
Leaves(table) == {table[k].mne : k \in {k \in DOMAIN table : table[k].str}}

\* the mnemonics of the nested tables of a table
SubLeaves(table) ==
  UNION {Leaves(table[k].sub) : k \in {k \in DOMAIN table : ~table[k].str}}

\* the fmt-level tables of ISA_OP_FP, merged per funct5
OpFpMnes ==
  UNION {Leaves(ISA_OP_FP[f5]) \cup SubLeaves(ISA_OP_FP[f5]) :
         f5 \in DOMAIN ISA_OP_FP}

MnesRV64I ==
  {"addiw", "slliw", "srliw", "sraiw", "addw", "subw", "sllw", "srlw",
   "sraw", "ld", "lwu", "sd"}

MnesM ==
  {"mul", "mulh", "mulhsu", "mulhu", "div", "divu", "rem", "remu",
   "mulw", "divw", "divuw", "remw", "remuw"}

MnesA == Leaves(ISA_AMO)

MnesR4 ==
  Leaves(ISA_MADD) \cup Leaves(ISA_MSUB) \cup Leaves(ISA_NMADD)
    \cup Leaves(ISA_NMSUB)

\* double-precision mnemonics (everything else of the float tables is EXT_F)
MnesD ==
  {"fld", "fsd", "fadd.d", "fsub.d", "fmul.d", "fdiv.d", "fsqrt.d",
   "fsgnj.d", "fsgnjn.d", "fsgnjx.d", "fmin.d", "fmax.d", "fcvt.s.d",
   "fcvt.d.s", "feq.d", "flt.d", "fle.d", "fcvt.w.d", "fcvt.wu.d",
   "fcvt.l.d", "fcvt.lu.d", "fcvt.d.w", "fcvt.d.wu", "fcvt.d.l",
   "fcvt.d.lu", "fmv.x.d", "fclass.d", "fmv.d.x", "fmadd.d", "fmsub.d",
   "fnmadd.d", "fnmsub.d"}

MnesFloat ==
  OpFpMnes \cup MnesR4 \cup Leaves(ISA_LOAD_FP) \cup Leaves(ISA_STORE_FP)

MnesZicsr == Leaves(ISA_SYSTEM)

MnesIType ==
  Leaves(ISA_LOAD) \cup Leaves(ISA_LOAD_FP) \cup Leaves(ISA_OP_IMM)
    \cup SubLeaves(ISA_OP_IMM) \cup Leaves(ISA_OP_IMM_32)
    \cup SubLeaves(ISA_OP_IMM_32) \cup Leaves(ISA_MISC_MEM)
    \cup Leaves(ISA_SYSTEM) \cup SubLeaves(ISA_SYSTEM) \cup {"jalr"}

MnesSType == Leaves(ISA_STORE) \cup Leaves(ISA_STORE_FP)

Mnemonics ==
  Leaves(ISA_OP) \cup Leaves(ISA_OP_32) \cup MnesA \cup OpFpMnes
    \cup MnesR4 \cup MnesIType \cup MnesSType \cup Leaves(ISA_BRANCH)
    \cup {"lui", "auipc", "jal"}

\* OP-FP mnemonics whose entry fixes rs2 (single-source instructions)
OpFpFixedRs2 ==
  {m \in OpFpMnes :
     \E f5 \in {"01011", "01000", "11000", "11010", "11100", "11110"} :
        m \in Leaves(ISA_OP_FP[f5]) \cup SubLeaves(ISA_OP_FP[f5])}

\* OP-FP mnemonics whose entry fixes funct3 (no rounding mode)
OpFpFixedFunct3 ==
  {m \in OpFpMnes :
     \E f5 \in {"00100", "00101", "10100", "11100", "11110"} :
        m \in Leaves(ISA_OP_FP[f5]) \cup SubLeaves(ISA_OP_FP[f5])}

IsaTagOf(m) ==
  CASE m \in MnesRV64I  -> "RV64I"
    [] m \in MnesM      -> "EXT_M"
    [] m \in MnesA      -> "EXT_A"
    [] m \in MnesD      -> "EXT_D"
    [] m \in MnesFloat  -> "EXT_F"
    [] m \in MnesZicsr  -> "EXT_Zicsr"
    [] m = "fence.i"    -> "EXT_Zifencei"
    [] OTHER            -> "RV32I"

FmtOf(m) ==
  CASE m \in MnesR4               -> "R4-type"
    [] m \in MnesIType            -> "I-type"
    [] m \in MnesSType            -> "S-type"
    [] m \in Leaves(ISA_BRANCH)   -> "B-type"
    [] m \in {"lui", "auipc"}     -> "U-type"
    [] m = "jal"                  -> "J-type"
    [] OTHER                      -> "R-type"

\* ISA[mne]: isa tag, format, and which of funct3 / rs2 the entry fixes
\* ("undefined" when the entry has no such property)
ISA ==
  [m \in Mnemonics |->
     [isa    |-> IsaTagOf(m),
      fmt    |-> FmtOf(m),
      funct3 |-> IF m \in OpFpMnes /\ m \notin OpFpFixedFunct3
                 THEN "undefined"
                 ELSE IF \E k \in DOMAIN ISA_OP_IMM : ISA_OP_IMM[k] = M(m)
                      THEN CHOOSE k \in DOMAIN ISA_OP_IMM : ISA_OP_IMM[k] = M(m)
                      ELSE "fixed",
      rs2    |-> IF m \in OpFpFixedRs2 THEN "fixed" ELSE "undefined"]]

\* CSR names by address
CSR ==
     1 :> "fflags"     @@ 2 :> "frm"        @@ 3 :> "fcsr"
  @@ 768 :> "mstatus"  @@ 769 :> "misa"     @@ 772 :> "mie"
  @@ 773 :> "mtvec"    @@ 832 :> "mscratch" @@ 833 :> "mepc"
  @@ 834 :> "mcause"   @@ 835 :> "mtval"    @@ 836 :> "mip"
  @@ 3072 :> "cycle"   @@ 3073 :> "time"    @@ 3074 :> "instret"

\* ABI register names, by register number
REGISTER ==
  << "zero", "ra", "sp", "gp", "tp", "t0", "t1", "t2", "s0", "s1",
     "a0", "a1", "a2", "a3", "a4", "a5", "a6", "a7",
     "s2", "s3", "s4", "s5", "s6", "s7", "s8", "s9", "s10", "s11",
     "t3", "t4", "t5", "t6" >>

FLOAT_REGISTER ==
  << "ft0", "ft1", "ft2", "ft3", "ft4", "ft5", "ft6", "ft7", "fs0", "fs1",
     "fa0", "fa1", "fa2", "fa3", "fa4", "fa5", "fa6", "fa7",
     "fs2", "fs3", "fs4", "fs5", "fs6", "fs7", "fs8", "fs9", "fs10", "fs11",
     "ft8", "ft9", "ft10", "ft11" >>

---------------------------------------------------------------------------
(* Instruction.js: fragments and ABI names *)

\* new Frag(asm, bits, field, mem = false); a numeric token is held by the
\* text JavaScript renders it as
Frag(asm, bits, field, mem) ==
  [asm |-> asm, bits |-> bits, field |-> field, mem |-> mem]

\* the numeric register names x0..x31 and f0..f31, by register number + 1
XNAMES == [i \in 1..32 |-> "x" \o ToString(i - 1)]

FNAMES == [i \in 1..32 |-> "f" \o ToString(i - 1)]

\* convertRegToAbi(reg): a numeric register name becomes its ABI name,
\* any other token is returned as it is
convertRegToAbi(tok) ==
  IF \E i \in 1..32 : XNAMES[i] = tok
  THEN REGISTER[CHOOSE i \in 1..32 : XNAMES[i] = tok]
  ELSE IF \E i \in 1..32 : FNAMES[i] = tok
       THEN FLOAT_REGISTER[CHOOSE i \in 1..32 : FNAMES[i] = tok]
       ELSE tok

---------------------------------------------------------------------------
(* Decoder: helper functions *)

\* getBits(binary, pos): pos is <<high, width>>
getBits(binary, pos) ==
  LET end   == pos[1] + 1
      start == end - pos[2]
  IN  SubSeq(binary, Len(binary) - end + 1, Len(binary) - start)

extractRFields(binary) ==
  [ rs2    |-> getBits(binary, FIELDS.rs2.pos),
    rs1    |-> getBits(binary, FIELDS.rs1.pos),
    funct3 |-> getBits(binary, FIELDS.funct3.pos),
    rd     |-> getBits(binary, FIELDS.rd.pos),
    funct5 |-> getBits(binary, FIELDS.r_funct5.pos),
    funct7 |-> getBits(binary, FIELDS.r_funct7.pos),
    aq     |-> getBits(binary, FIELDS.r_aq.pos),
    rl     |-> getBits(binary, FIELDS.r_rl.pos),
    fmt    |-> getBits(binary, FIELDS.r_fp_fmt.pos) ]

extractIFields(binary) ==
  [ imm     |-> getBits(binary, FIELDS.i_imm_11_0.pos),
    rs1     |-> getBits(binary, FIELDS.rs1.pos),
    funct3  |-> getBits(binary, FIELDS.funct3.pos),
    rd      |-> getBits(binary, FIELDS.rd.pos),
    shtyp   |-> getBits(binary, FIELDS.i_shtyp.pos),
    shamt   |-> getBits(binary, FIELDS.i_shamt.pos),
    shamt_5 |-> getBits(binary, FIELDS.i_shamt_5.pos),
    funct12 |-> getBits(binary, FIELDS.i_funct12.pos),
    fm      |-> getBits(binary, FIELDS.i_fm.pos),
    pred    |-> getBits(binary, FIELDS.i_pred.pos),
    succ    |-> getBits(binary, FIELDS.i_succ.pos) ]

extractSFields(binary) ==
  [ imm_11_5 |-> getBits(binary, FIELDS.s_imm_11_5.pos),
    rs2      |-> getBits(binary, FIELDS.rs2.pos),
    rs1      |-> getBits(binary, FIELDS.rs1.pos),
    funct3   |-> getBits(binary, FIELDS.funct3.pos),
    imm_4_0  |-> getBits(binary, FIELDS.s_imm_4_0.pos) ]

\* extractBFields with the positions of imm[12] and imm[11] exchanged
extractBFieldsSwapped(binary) ==
  [ imm_12   |-> getBits(binary, FIELDS.b_imm_11.pos),
    imm_10_5 |-> getBits(binary, FIELDS.b_imm_10_5.pos),
    rs2      |-> getBits(binary, FIELDS.rs2.pos),
    rs1      |-> getBits(binary, FIELDS.rs1.pos),
    funct3   |-> getBits(binary, FIELDS.funct3.pos),
    imm_4_1  |-> getBits(binary, FIELDS.b_imm_4_1.pos),
    imm_11   |-> getBits(binary, FIELDS.b_imm_12.pos) ]

extractBFields(binary) ==
  [ imm_12   |-> getBits(binary, FIELDS.b_imm_12.pos),
    imm_10_5 |-> getBits(binary, FIELDS.b_imm_10_5.pos),
    rs2      |-> getBits(binary, FIELDS.rs2.pos),
    rs1      |-> getBits(binary, FIELDS.rs1.pos),
    funct3   |-> getBits(binary, FIELDS.funct3.pos),
    imm_4_1  |-> getBits(binary, FIELDS.b_imm_4_1.pos),
    imm_11   |-> getBits(binary, FIELDS.b_imm_11.pos) ]

\* decImm without the sign extension: the text is always read as unsigned
decImmUnsigned(immediate, signExtend) == ParseBin(immediate)

\* decImm(immediate, signExtend = true)
decImm(immediate, signExtend) ==
  IF signExtend /\ Char(immediate, 1) = "1"
  THEN ParseBin(immediate) - Shl1(Len(immediate))
  ELSE ParseBin(immediate)

\* decReg(reg, floatReg = false)
decReg(reg, floatReg) ==
  (IF floatReg THEN "f" ELSE "x") \o ToString(ParseBin(reg))

\* the loop of decMem: the letters of 'iorw' whose bit is set, from index i on
RECURSIVE decMemFrom(_, _)
decMemFrom(bits, i) ==
  LET access == <<"i", "o", "r", "w">>
  IN  IF i > Len(bits) THEN ""
      ELSE (IF Char(bits, i) = "1" THEN access[i] ELSE "")
             \o decMemFrom(bits, i + 1)

\* decMem without the check for an empty output
decMemUnchecked(bits) == [ok |-> TRUE, output |-> decMemFrom(bits, 1)]

\* decMem(bits): throws (ok = FALSE) when no letter is set
decMem(bits) ==
  LET output == decMemFrom(bits, 1)
  IN  [ok |-> output # "", output |-> output]

\* decCSR(binStr): the CSR's name, or '0x' and three hex digits
decCSR(binStr) ==
  LET val == ParseBin(binStr)
  IN  IF val \in DOMAIN CSR THEN CSR[val] ELSE "0x" \o Hex3(val)

\* String.prototype.trim, for blanks
RECURSIVE Trim(_)
Trim(s) ==
  IF Len(s) > 0 /\ Char(s, 1) = " " THEN Trim(SubSeq(s, 2, Len(s)))
  ELSE IF Len(s) > 0 /\ Char(s, Len(s)) = " "
       THEN Trim(SubSeq(s, 1, Len(s) - 1))
       ELSE s

\* the test for a bracketed immediate field name only
StartsWithImmBrackets(field) ==
  Len(field) >= 4 /\ SubSeq(field, 1, 4) = "imm["

\* /^imm/.test(field)
StartsWithImm(field) == Len(field) >= 3 /\ SubSeq(field, 1, 3) = "imm"

\* the loop of renderAsm from fragment i on
RECURSIVE renderFrom(_, _, _)
renderFrom(asmFrags, abi, i) ==
  IF i > Len(asmFrags) THEN ""
  ELSE LET f     == asmFrags[i]
           asm   == IF abi THEN convertRegToAbi(f.asm) ELSE f.asm
           delim == IF i = 2 THEN " "
                    ELSE IF ~f.mem \/ ~StartsWithImm(asmFrags[i - 1].field)
                         THEN ", " ELSE ""
           tok   == IF f.mem THEN "(" \o asm \o ")" ELSE asm
       IN  delim \o tok \o renderFrom(asmFrags, abi, i + 1)

\* renderAsm(asmFrags, abi = false)
renderAsm(asmFrags, abi) ==
  Trim(asmFrags[1].asm \o renderFrom(asmFrags, abi, 2))


---------------------------------------------------------------------------
(* Decoder: the handlers.  A handler either throws (err names the error)   *)
(* or sets the mnemonic, possibly the isa, and the two fragment lists.     *)
(* The constants of a handler's body are bound with With, in the order the *)
(* source declares them.                                                   *)

\* const name = v; F(name)
With(v, F(_)) == F(v)

\* list.push(f[k1], f[k2], ...) on an empty list
Pick(f, keys) == [i \in 1..Len(keys) |-> f[keys[i]]]

\* a handler that threw
Throw(e) ==
  [err |-> e, mne |-> "", isa |-> "undefined", asmFrags |-> <<>>,
   binFrags |-> <<>>]

\* a handler that returned
Return(mne, isa, asmFrags, binFrags) ==
  [err |-> "", mne |-> mne, isa |-> isa, asmFrags |-> asmFrags,
   binFrags |-> binFrags]

decodeOP(b, cfg, opcode) ==
  With(extractRFields(b), LAMBDA fields :
  With(IF opcode = OPCODE.OP_32
       THEN Lookup(ISA_OP_32, fields.funct7 \o fields.funct3)
       ELSE Lookup(ISA_OP, fields.funct7 \o fields.funct3), LAMBDA e :
  With([ opcode |-> Frag(e.mne, opcode, FIELDS.opcode.name, FALSE),
         funct3 |-> Frag(e.mne, fields.funct3, FIELDS.funct3.name, FALSE),
         funct7 |-> Frag(e.mne, fields.funct7, FIELDS.r_funct7.name, FALSE),
         rd     |-> Frag(decReg(fields.rd, FALSE), fields.rd,
                         FIELDS.rd.name, FALSE),
         rs1    |-> Frag(decReg(fields.rs1, FALSE), fields.rs1,
                         FIELDS.rs1.name, FALSE),
         rs2    |-> Frag(decReg(fields.rs2, FALSE), fields.rs2,
                         FIELDS.rs2.name, FALSE) ], LAMBDA f :
    IF e = Undefined THEN Throw("InvalidFunct")
    ELSE Return(e.mne, "undefined",
                Pick(f, <<"opcode", "rd", "rs1", "rs2">>),
                Pick(f, <<"funct7", "rs2", "rs1", "funct3", "rd",
                          "opcode">>)))))

\* lines 227-236: the nested lookups of an OP-FP mnemonic
LookupOP_FP(fields) ==
  With(IF fields.funct5 \in DOMAIN ISA_OP_FP
       THEN Lookup(ISA_OP_FP[fields.funct5], fields.fmt)
       ELSE Undefined, LAMBDA e0 :
    IF e0 # Undefined /\ ~e0.str
    THEN IF Lookup(e0.sub, fields.rs2) # Undefined
         THEN Lookup(e0.sub, fields.rs2)
         ELSE Lookup(e0.sub, fields.funct3)
    ELSE e0)

\* lines 244-253: whether rd / rs1 is a float register
FloatRd(funct5) == ~(Char(funct5, 1) = "1" /\ Char(funct5, 4) # "1")

\* rs1 decoded as a float register whatever funct5 is
FloatRs1Always(funct5) == TRUE

FloatRs1(funct5) == ~(Char(funct5, 1) = "1" /\ Char(funct5, 4) = "1")

decodeOP_FP(b, cfg, opcode) ==
  With(extractRFields(b), LAMBDA fields :
  With(LookupOP_FP(fields), LAMBDA e :
    IF e = Undefined THEN Throw("InvalidFunct")
    ELSE
  With(ISA[e.mne], LAMBDA inst :
  With([ opcode |-> Frag(e.mne, opcode, FIELDS.opcode.name, FALSE),
         funct3 |-> Frag(e.mne, fields.funct3,
                         IF inst.funct3 = "undefined" THEN "rm"
                         ELSE FIELDS.funct3.name, FALSE),
         funct5 |-> Frag(e.mne, fields.funct5, FIELDS.r_funct5.name, FALSE),
         fmt    |-> Frag(e.mne, fields.fmt, FIELDS.r_fp_fmt.name, FALSE),
         rd     |-> Frag(decReg(fields.rd, FloatRd(fields.funct5)), fields.rd,
                         FIELDS.rd.name, FALSE),
         rs1    |-> Frag(decReg(fields.rs1, FloatRs1(fields.funct5)),
                         fields.rs1, FIELDS.rs1.name, FALSE),
         rs2    |-> Frag(decReg(fields.rs2, TRUE), fields.rs2,
                         FIELDS.rs2.name, FALSE) ], LAMBDA f :
    Return(e.mne, "undefined",
           IF inst.rs2 = "undefined"
           THEN Pick(f, <<"opcode", "rd", "rs1", "rs2">>)
           ELSE Pick(f, <<"opcode", "rd", "rs1">>),
           Pick(f, <<"funct5", "fmt", "rs2", "rs1", "funct3", "rd",
                     "opcode">>))))))

decodeJALR(b, cfg, opcode) ==
  With(extractIFields(b), LAMBDA fields :
  With("jalr", LAMBDA mne :
  With([ opcode |-> Frag(mne, opcode, FIELDS.opcode.name, FALSE),
         funct3 |-> Frag(mne, fields.funct3, FIELDS.funct3.name, FALSE),
         rd     |-> Frag(decReg(fields.rd, FALSE), fields.rd,
                         FIELDS.rd.name, FALSE),
         rs1    |-> Frag(decReg(fields.rs1, FALSE), fields.rs1,
                         FIELDS.rs1.name, FALSE),
         imm    |-> Frag(ToString(decImm(fields.imm, TRUE)), fields.imm,
                         FIELDS.i_imm_11_0.name, FALSE) ], LAMBDA f :
    Return(mne, "undefined",
           Pick(f, <<"opcode", "rd", "rs1", "imm">>),
           Pick(f, <<"imm", "rs1", "funct3", "rd", "opcode">>)))))

decodeLOAD(b, cfg, opcode) ==
  With(extractIFields(b), LAMBDA fields :
  With(opcode = OPCODE.LOAD_FP, LAMBDA floatInst :
  With(IF floatInst THEN Lookup(ISA_LOAD_FP, fields.funct3)
       ELSE Lookup(ISA_LOAD, fields.funct3), LAMBDA e :
  With([ opcode |-> Frag(e.mne, opcode, FIELDS.opcode.name, FALSE),
         funct3 |-> Frag(e.mne, fields.funct3, FIELDS.funct3.name, FALSE),
         rd     |-> Frag(decReg(fields.rd, floatInst), fields.rd,
                         FIELDS.rd.name, FALSE),
         rs1    |-> Frag(decReg(fields.rs1, FALSE), fields.rs1,
                         FIELDS.rs1.name, TRUE),
         imm    |-> Frag(ToString(decImm(fields.imm, TRUE)), fields.imm,
                         FIELDS.i_imm_11_0.name, FALSE) ], LAMBDA f :
    IF e = Undefined THEN Throw("InvalidFunct")
    ELSE Return(e.mne, "undefined",
                Pick(f, <<"opcode", "rd", "imm", "rs1">>),
                Pick(f, <<"imm", "rs1", "funct3", "rd", "opcode">>))))))

\* lines 382-391: whether the OP-IMM entry is a shift
IsShift(e0, funct3) ==
  IF ~e0.str THEN TRUE ELSE funct3 = ISA["slli"].funct3

\* lines 384-388: the mnemonic of the OP-IMM entry
MneOP_IMM(e0, shtyp) ==
  IF ~e0.str THEN e0.sub[shtyp].mne ELSE e0.mne

\* the choice of the shift amount's width by the configuration alone
Shamt64ConfigOnly(op_imm_32, cfg, shamt_5) ==
  ~op_imm_32 /\ cfg.ISA = COPTS_ISA.RV64I

\* lines 413-416: whether the shift amount is decoded as six bits
Shamt64(op_imm_32, cfg, shamt_5) ==
  ~op_imm_32 /\ (cfg.ISA = COPTS_ISA.RV64I \/ shamt_5 = "1")

\* the validation of the upper bits with the six-bit comparison only
ShtypMatchesSix(shamt_64, imm_11_5, imm_11_6, imm) ==
  imm_11_6 = SubSeq(imm, 1, 6)

\* lines 440-445: the upper bits of the immediate field match the pattern
\* built from the shift type
ShtypMatches(shamt_64, imm_11_5, imm_11_6, imm) ==
  ~(   (~shamt_64 /\ imm_11_5 # SubSeq(imm, 1, 7))
    \/ (shamt_64 /\ imm_11_6 # SubSeq(imm, 1, 6)))

\* lines 405-449: the shift branch of decodeOP_IMM; f holds the common
\* fragments
decodeShift(fields, cfg, mne, op_imm_32, f) ==
  With("0" \o fields.shtyp \o "0000", LAMBDA imm_11_6 :
  With(imm_11_6 \o "0", LAMBDA imm_11_5 :
  With(Shamt64(op_imm_32, cfg, fields.shamt_5), LAMBDA shamt_64 :
  With(fields.shamt_5 \o fields.shamt, LAMBDA shamt_5_0 :
  With(IF shamt_64
       THEN [imm |-> Frag(ToString(decImm(shamt_5_0, FALSE)), shamt_5_0,
                          FIELDS.i_shamt_5_0.name, FALSE),
             shift |-> Frag(mne, imm_11_6, FIELDS.i_shtyp_11_6.name, FALSE)]
       ELSE [imm |-> Frag(ToString(decImm(fields.shamt, FALSE)), fields.shamt,
                          FIELDS.i_shamt.name, FALSE),
             shift |-> Frag(mne, imm_11_5, FIELDS.i_shtyp_11_5.name, FALSE)],
       LAMBDA g :
    IF shamt_64 /\ cfg.ISA = COPTS_ISA.RV32I
    THEN Throw("ShiftOutOfRange")
    ELSE IF ~ShtypMatches(shamt_64, imm_11_5, imm_11_6, fields.imm)
         THEN Throw("BadShtyp")
         ELSE Return(mne, IF shamt_64 THEN "RV64I" ELSE "undefined",
                     <<f.opcode, f.rd, f.rs1, g.imm>>,
                     <<g.shift, g.imm, f.rs1, f.funct3, f.rd, f.opcode>>))))))

decodeOP_IMM(b, cfg, opcode) ==
  With(extractIFields(b), LAMBDA fields :
  With(opcode = OPCODE.OP_IMM_32, LAMBDA op_imm_32 :
  With(IF op_imm_32 THEN Lookup(ISA_OP_IMM_32, fields.funct3)
       ELSE Lookup(ISA_OP_IMM, fields.funct3), LAMBDA e0 :
    IF e0 = Undefined THEN Throw("InvalidFunct")
    ELSE
  With(MneOP_IMM(e0, fields.shtyp), LAMBDA mne :
  With([ opcode |-> Frag(mne, opcode, FIELDS.opcode.name, FALSE),
         funct3 |-> Frag(mne, fields.funct3, FIELDS.funct3.name, FALSE),
         rd     |-> Frag(decReg(fields.rd, FALSE), fields.rd,
                         FIELDS.rd.name, FALSE),
         rs1    |-> Frag(decReg(fields.rs1, FALSE), fields.rs1,
                         FIELDS.rs1.name, FALSE),
         imm    |-> Frag(ToString(decImm(fields.imm, TRUE)), fields.imm,
                         FIELDS.i_imm_11_0.name, FALSE) ], LAMBDA f :
    IF IsShift(e0, fields.funct3)
    THEN decodeShift(fields, cfg, mne, op_imm_32, f)
    ELSE Return(mne, "undefined",
                Pick(f, <<"opcode", "rd", "rs1", "imm">>),
                Pick(f, <<"imm", "rs1", "funct3", "rd", "opcode">>)))))))

\* the register check with rs1 left out
ReservedNonZeroRdOnly(rd, rs1) == rd # "00000"

\* lines 485-488 and 550-553: rd !== '00000' || rs1 !== '00000'
ReservedNonZero(rd, rs1) == rd # "00000" \/ rs1 # "00000"

decodeMISC_MEM(b, cfg, opcode) ==
  With(extractIFields(b), LAMBDA fields :
  With(Lookup(ISA_MISC_MEM, fields.funct3), LAMBDA e :
  With(decMem(fields.pred), LAMBDA predecessor :
  With(decMem(fields.succ), LAMBDA successor :
  With([ opcode |-> Frag(e.mne, opcode, FIELDS.opcode.name, FALSE),
         funct3 |-> Frag(e.mne, fields.funct3, FIELDS.funct3.name, FALSE),
         rd     |-> Frag(e.mne, fields.rd, FIELDS.rd.name, FALSE),
         rs1    |-> Frag(e.mne, fields.rs1, FIELDS.rs1.name, FALSE),
         fm     |-> Frag(e.mne, fields.fm, FIELDS.i_fm.name, FALSE),
         pred   |-> Frag(predecessor.output, fields.pred, FIELDS.i_pred.name,
                         FALSE),
         succ   |-> Frag(successor.output, fields.succ, FIELDS.i_succ.name,
                         FALSE),
         imm    |-> Frag(e.mne, fields.imm, FIELDS.i_imm_11_0.name, FALSE) ],
       LAMBDA f :
    IF e = Undefined THEN Throw("InvalidFunct")
    ELSE IF ReservedNonZero(fields.rd, fields.rs1)
         THEN Throw("NonZeroReserved")
         ELSE IF e.mne = "fence"
              THEN IF ~predecessor.ok \/ ~successor.ok
                   THEN Throw("InvalidFence")
                   ELSE Return(e.mne, "undefined",
                               Pick(f, <<"opcode", "pred", "succ">>),
                               Pick(f, <<"fm", "pred", "succ", "rs1",
                                         "funct3", "rd", "opcode">>))
              ELSE Return(e.mne, "undefined",
                          Pick(f, <<"opcode">>),
                          Pick(f, <<"imm", "rs1", "funct3", "rd",
                                    "opcode">>)))))))

\* lines 576-608: the Zicsr branch of decodeSYSTEM
decodeZicsr(fields, mne, opcode) ==
  With(Char(fields.funct3, 1) = "0", LAMBDA srcIsReg :
  With([ opcode |-> Frag(mne, opcode, FIELDS.opcode.name, FALSE),
         funct3 |-> Frag(mne, fields.funct3, FIELDS.funct3.name, FALSE),
         rd     |-> Frag(decReg(fields.rd, FALSE), fields.rd,
                         FIELDS.rd.name, FALSE),
         csr    |-> Frag(decCSR(fields.imm), fields.imm, FIELDS.i_csr.name,
                         FALSE),
         rs1    |-> Frag(IF srcIsReg THEN decReg(fields.rs1, FALSE)
                         ELSE ToString(decImm(fields.rs1, FALSE)),
                         fields.rs1,
                         IF srcIsReg THEN FIELDS.rs1.name
                         ELSE FIELDS.i_imm_4_0.name, FALSE) ], LAMBDA f :
    Return(mne, "undefined",
           Pick(f, <<"opcode", "rd", "csr", "rs1">>),
           Pick(f, <<"csr", "rs1", "funct3", "rd", "opcode">>))))

decodeSYSTEM(b, cfg, opcode) ==
  With(extractIFields(b), LAMBDA fields :
  With(Lookup(ISA_SYSTEM, fields.funct3), LAMBDA e0 :
    IF e0 = Undefined THEN Throw("InvalidFunct")
    ELSE IF e0.str THEN decodeZicsr(fields, e0.mne, opcode)
    ELSE
  With(Lookup(e0.sub, fields.imm), LAMBDA e :
  With([ opcode  |-> Frag(e.mne, opcode, FIELDS.opcode.name, FALSE),
         funct3  |-> Frag(e.mne, fields.funct3, FIELDS.funct3.name, FALSE),
         rd      |-> Frag(e.mne, fields.rd, FIELDS.rd.name, FALSE),
         rs1     |-> Frag(e.mne, fields.rs1, FIELDS.rs1.name, FALSE),
         funct12 |-> Frag(e.mne, fields.imm, FIELDS.i_funct12.name, FALSE) ],
       LAMBDA f :
    IF e = Undefined THEN Throw("InvalidFunct")
    ELSE IF ReservedNonZero(fields.rd, fields.rs1)
         THEN Throw("NonZeroReserved")
         ELSE Return(e.mne, "undefined",
                     Pick(f, <<"opcode">>),
                     Pick(f, <<"funct12", "rs1", "funct3", "rd",
                               "opcode">>))))))

decodeSTORE(b, cfg, opcode) ==
  With(extractSFields(b), LAMBDA fields :
  With(fields.imm_11_5 \o fields.imm_4_0, LAMBDA imm :
  With(opcode = OPCODE.STORE_FP, LAMBDA floatInst :
  With(IF floatInst THEN Lookup(ISA_STORE_FP, fields.funct3)
       ELSE Lookup(ISA_STORE, fields.funct3), LAMBDA e :
  With(ToString(decImm(imm, TRUE)), LAMBDA offset :
  With([ opcode   |-> Frag(e.mne, opcode, FIELDS.opcode.name, FALSE),
         funct3   |-> Frag(e.mne, fields.funct3, FIELDS.funct3.name, FALSE),
         rs1      |-> Frag(decReg(fields.rs1, FALSE), fields.rs1,
                           FIELDS.rs1.name, TRUE),
         rs2      |-> Frag(decReg(fields.rs2, floatInst), fields.rs2,
                           FIELDS.rs2.name, FALSE),
         imm_4_0  |-> Frag(offset, fields.imm_4_0, FIELDS.s_imm_4_0.name,
                           FALSE),
         imm_11_5 |-> Frag(offset, fields.imm_11_5, FIELDS.s_imm_11_5.name,
                           FALSE),
         imm      |-> Frag(offset, imm, "imm", FALSE) ], LAMBDA f :
    IF e = Undefined THEN Throw("InvalidFunct")
    ELSE Return(e.mne, "undefined",
                Pick(f, <<"opcode", "rs2", "imm", "rs1">>),
                Pick(f, <<"imm_11_5", "rs2", "rs1", "funct3", "imm_4_0",
                          "opcode">>))))))))

decodeBRANCH(b, cfg, opcode) ==
  With(extractBFields(b), LAMBDA fields :
  With(fields.imm_12 \o fields.imm_11 \o fields.imm_10_5 \o fields.imm_4_1
         \o "0", LAMBDA imm :
  With(Lookup(ISA_BRANCH, fields.funct3), LAMBDA e :
  With(ToString(decImm(imm, TRUE)), LAMBDA offset :
  With([ opcode   |-> Frag(e.mne, opcode, FIELDS.opcode.name, FALSE),
         funct3   |-> Frag(e.mne, fields.funct3, FIELDS.funct3.name, FALSE),
         rs1      |-> Frag(decReg(fields.rs1, FALSE), fields.rs1,
                           FIELDS.rs1.name, FALSE),
         rs2      |-> Frag(decReg(fields.rs2, FALSE), fields.rs2,
                           FIELDS.rs2.name, FALSE),
         imm_12   |-> Frag(offset, fields.imm_12, FIELDS.b_imm_12.name, FALSE),
         imm_11   |-> Frag(offset, fields.imm_11, FIELDS.b_imm_11.name, FALSE),
         imm_10_5 |-> Frag(offset, fields.imm_10_5, FIELDS.b_imm_10_5.name,
                           FALSE),
         imm_4_1  |-> Frag(offset, fields.imm_4_1, FIELDS.b_imm_4_1.name,
                           FALSE),
         imm      |-> Frag(offset, imm, "imm", FALSE) ], LAMBDA f :
    IF e = Undefined THEN Throw("InvalidFunct")
    ELSE Return(e.mne, "undefined",
                Pick(f, <<"opcode", "rs1", "rs2", "imm">>),
                Pick(f, <<"imm_10_5", "rs2", "rs1", "funct3", "imm_4_1",
                          "opcode">>)))))))

decodeUType(b, cfg, opcode) ==
  With(getBits(b, FIELDS.u_imm_31_12.pos), LAMBDA imm :
  With(getBits(b, FIELDS.rd.pos), LAMBDA rd :
  With(IF opcode = OPCODE.AUIPC THEN "auipc" ELSE "lui", LAMBDA mne :
  With([ opcode |-> Frag(mne, opcode, FIELDS.opcode.name, FALSE),
         imm    |-> Frag(ToString(decImm(imm, TRUE)), imm,
                         FIELDS.u_imm_31_12.name, FALSE),
         rd     |-> Frag(decReg(rd, FALSE), rd, FIELDS.rd.name, FALSE) ],
       LAMBDA f :
    Return(mne, "undefined",
           Pick(f, <<"opcode", "rd", "imm">>),
           Pick(f, <<"imm", "rd", "opcode">>))))))

\* lines 738-742: the fields of a J-type instruction
extractJFields(binary) ==
  [ imm_20    |-> getBits(binary, FIELDS.j_imm_20.pos),
    imm_10_1  |-> getBits(binary, FIELDS.j_imm_10_1.pos),
    imm_11    |-> getBits(binary, FIELDS.j_imm_11.pos),
    imm_19_12 |-> getBits(binary, FIELDS.j_imm_19_12.pos),
    rd        |-> getBits(binary, FIELDS.rd.pos) ]

decodeJAL(b, cfg, opcode) ==
  With(extractJFields(b), LAMBDA fields :
  With(fields.imm_20 \o fields.imm_19_12 \o fields.imm_11 \o fields.imm_10_1
         \o "0", LAMBDA imm :
  With("jal", LAMBDA mne :
  With(ToString(decImm(imm, TRUE)), LAMBDA offset :
  With([ opcode    |-> Frag(mne, opcode, FIELDS.opcode.name, FALSE),
         rd        |-> Frag(decReg(fields.rd, FALSE), fields.rd,
                            FIELDS.rd.name, FALSE),
         imm_20    |-> Frag(offset, fields.imm_20, FIELDS.j_imm_20.name,
                            FALSE),
         imm_10_1  |-> Frag(offset, fields.imm_10_1, FIELDS.j_imm_10_1.name,
                            FALSE),
         imm_11    |-> Frag(offset, fields.imm_11, FIELDS.j_imm_11.name,
                            FALSE),
         imm_19_12 |-> Frag(offset, fields.imm_19_12,
                            FIELDS.j_imm_19_12.name, FALSE),
         imm       |-> Frag(offset, imm, "imm", FALSE) ], LAMBDA f :
    Return(mne, "undefined",
           Pick(f, <<"opcode", "rd", "imm">>),
           Pick(f, <<"imm_20", "imm_10_1", "imm_11", "imm_19_12", "rd",
                     "opcode">>)))))))

\* /^lr\.[wd]$/.test(mne)
IsLr(mne) == mne \in {"lr.w", "lr.d"}

decodeAMO(b, cfg, opcode) ==
  With(extractRFields(b), LAMBDA fields :
  With(Lookup(ISA_AMO, fields.funct5 \o fields.funct3), LAMBDA e :
  With(IsLr(e.mne), LAMBDA lr :
  With([ opcode |-> Frag(e.mne, opcode, FIELDS.opcode.name, FALSE),
         rd     |-> Frag(decReg(fields.rd, FALSE), fields.rd,
                         FIELDS.rd.name, FALSE),
         funct3 |-> Frag(e.mne, fields.funct3, FIELDS.funct3.name, FALSE),
         rs1    |-> Frag(decReg(fields.rs1, FALSE), fields.rs1,
                         FIELDS.rs1.name, TRUE),
         rs2    |-> Frag(IF lr THEN "n/a" ELSE decReg(fields.rs2, FALSE),
                         fields.rs2, FIELDS.rs2.name, FALSE),
         rl     |-> Frag(e.mne, fields.rl, FIELDS.r_rl.name, FALSE),
         aq     |-> Frag(e.mne, fields.aq, FIELDS.r_aq.name, FALSE),
         funct5 |-> Frag(e.mne, fields.funct5, FIELDS.r_funct5.name, FALSE) ],
       LAMBDA f :
    IF e = Undefined THEN Throw("InvalidFunct")
    ELSE Return(e.mne, "undefined",
                IF lr THEN Pick(f, <<"opcode", "rd", "rs1">>)
                ELSE Pick(f, <<"opcode", "rd", "rs2", "rs1">>),
                Pick(f, <<"funct5", "aq", "rl", "rs2", "rs1", "funct3", "rd",
                          "opcode">>))))))

\* lines 838-851: the table of the fused multiply-add opcode
TableR4(opcode) ==
  CASE opcode = OPCODE.MADD  -> ISA_MADD
    [] opcode = OPCODE.MSUB  -> ISA_MSUB
    [] opcode = OPCODE.NMADD -> ISA_NMADD
    [] opcode = OPCODE.NMSUB -> ISA_NMSUB

decodeR4(b, cfg, opcode) ==
  With(extractRFields(b), LAMBDA fields :
  With(Lookup(TableR4(opcode), fields.fmt), LAMBDA e :
  With([ opcode |-> Frag(e.mne, opcode, FIELDS.opcode.name, FALSE),
         fmt    |-> Frag(e.mne, fields.fmt, FIELDS.r_fp_fmt.name, FALSE),
         rm     |-> Frag(e.mne, fields.funct3, "rm", FALSE),
         rd     |-> Frag(decReg(fields.rd, TRUE), fields.rd, FIELDS.rd.name,
                         FALSE),
         rs1    |-> Frag(decReg(fields.rs1, TRUE), fields.rs1,
                         FIELDS.rs1.name, FALSE),
         rs2    |-> Frag(decReg(fields.rs2, TRUE), fields.rs2,
                         FIELDS.rs2.name, FALSE),
         rs3    |-> Frag(decReg(fields.funct5, TRUE), fields.funct5, "rs3",
                         FALSE) ], LAMBDA f :
    IF e = Undefined THEN Throw("InvalidFunct")
    ELSE Return(e.mne, "undefined",
                Pick(f, <<"opcode", "rd", "rs1", "rs2", "rs3">>),
                Pick(f, <<"rs3", "fmt", "rs2", "rs1", "rm", "rd",
                          "opcode">>)))))

---------------------------------------------------------------------------
(* Decoder: the constructor and #convertBinToAsm *)

\* the switch on the opcode (lines 77-142)
Dispatch(b, cfg, opcode) ==
  CASE opcode \in {OPCODE.OP, OPCODE.OP_32}         -> decodeOP(b, cfg, opcode)
    [] opcode = OPCODE.OP_FP                        -> decodeOP_FP(b, cfg, opcode)
    [] opcode = OPCODE.AMO                          -> decodeAMO(b, cfg, opcode)
    [] opcode = OPCODE.JALR                         -> decodeJALR(b, cfg, opcode)
    [] opcode \in {OPCODE.LOAD, OPCODE.LOAD_FP}     -> decodeLOAD(b, cfg, opcode)
    [] opcode \in {OPCODE.OP_IMM, OPCODE.OP_IMM_32} -> decodeOP_IMM(b, cfg, opcode)
    [] opcode = OPCODE.MISC_MEM                     -> decodeMISC_MEM(b, cfg, opcode)
    [] opcode = OPCODE.SYSTEM                       -> decodeSYSTEM(b, cfg, opcode)
    [] opcode \in {OPCODE.STORE, OPCODE.STORE_FP}   -> decodeSTORE(b, cfg, opcode)
    [] opcode = OPCODE.BRANCH                       -> decodeBRANCH(b, cfg, opcode)
    [] opcode \in {OPCODE.LUI, OPCODE.AUIPC}        -> decodeUType(b, cfg, opcode)
    [] opcode = OPCODE.JAL                          -> decodeJAL(b, cfg, opcode)
    [] opcode \in {OPCODE.MADD, OPCODE.MSUB, OPCODE.NMADD, OPCODE.NMSUB}
                                                    -> decodeR4(b, cfg, opcode)
    [] OTHER                                        -> Throw("InvalidOpcode")

\* /^RV64.$/.test(isa)
IsRV64Tag(isa) == Len(isa) = 5 /\ SubSeq(isa, 1, 4) = "RV64"

\* the mismatch test with the pattern /^RV64$/, which no tag matches
\* the check with the configurations exchanged
IsaMismatchExchanged(cfg, isa) ==
  cfg.ISA = COPTS_ISA.RV64I /\ ~IsRV64Tag(isa)

IsaMismatchNoSuffix(cfg, isa) == cfg.ISA = COPTS_ISA.RV32I /\ isa = "RV64"

\* lines 152-155: the configuration is RV32I and the instruction is RV64 only
IsaMismatch(cfg, isa) == cfg.ISA = COPTS_ISA.RV32I /\ IsRV64Tag(isa)

\* the Decoder object when the constructor threw
Failed(e) ==
  [ok |-> FALSE, err |-> e, mne |-> "", asm |-> "", fmt |-> "", isa |-> "",
   binFrags |-> <<>>, asmFrags |-> <<>>]

\* line 150: this.isa ?? ISA[this.#mne].isa
IsaOf(h) == IF h.isa # "undefined" THEN h.isa ELSE ISA[h.mne].isa

\* lines 144-158, after the handler h returned or threw: the Decoder's
\* fields, or the error thrown
Finish(h, cfg) ==
  IF h.err # "" THEN Failed(h.err)
  ELSE IF IsaMismatch(cfg, IsaOf(h)) THEN Failed("IsaMismatch")
  ELSE [ok |-> TRUE, err |-> "", mne |-> h.mne,
        asm |-> renderAsm(h.asmFrags, cfg.ABI),
        fmt |-> ISA[h.mne].fmt, isa |-> IsaOf(h),
        binFrags |-> h.binFrags, asmFrags |-> h.asmFrags]

\* new Decoder(bin, config)
convertBinToAsm(b, cfg) ==
  Finish(Dispatch(b, cfg, getBits(b, FIELDS.opcode.pos)), cfg)

---------------------------------------------------------------------------
(* Encoder (specification section 4.4): an assembly line to the 32-bit     *)
(* word, or the name of the error                                           *)

\* tokens are separated by whitespace, commas and the parentheses of the
\* memory form
IsSep(c) == c \in {" ", ",", "(", ")"}

RECURSIVE tokensFrom(_, _, _)
\* the tokens of s from position i on; cur is the token being read
tokensFrom(s, i, cur) ==
  IF i > Len(s) THEN (IF cur = "" THEN <<>> ELSE <<cur>>)
  ELSE IF IsSep(Char(s, i))
       THEN (IF cur = "" THEN <<>> ELSE <<cur>>) \o tokensFrom(s, i + 1, "")
       ELSE tokensFrom(s, i + 1, cur \o Char(s, i))

tokenize(s) == tokensFrom(s, 1, "")

\* the value of a hexadecimal digit
DigitVal(c) == CHOOSE d \in 0..15 : HexDigit(d) = c

RECURSIVE parseDigits(_, _, _)
\* the value of the first n digits of s in the given base
parseDigits(s, n, base) ==
  IF n = 0 THEN 0
  ELSE base * parseDigits(s, n - 1, base) + DigitVal(Char(s, n))

\* an integer literal: decimal, 0x..., with an optional negative sign
parseInt(tok) ==
  IF Char(tok, 1) = "-"
  THEN 0 - parseDigits(SubSeq(tok, 2, Len(tok)), Len(tok) - 1, 10)
  ELSE IF Len(tok) > 2 /\ SubSeq(tok, 1, 2) = "0x"
       THEN parseDigits(SubSeq(tok, 3, Len(tok)), Len(tok) - 2, 16)
       ELSE parseDigits(tok, Len(tok), 10)

\* a register operand, x0..x31 / f0..f31 or an ABI name, as five bits
encReg(tok) ==
  IF \E i \in 1..32 : REGISTER[i] = tok
  THEN ToBin((CHOOSE i \in 1..32 : REGISTER[i] = tok) - 1, 5)
  ELSE IF \E i \in 1..32 : FLOAT_REGISTER[i] = tok
       THEN ToBin((CHOOSE i \in 1..32 : FLOAT_REGISTER[i] = tok) - 1, 5)
       ELSE ToBin(parseDigits(SubSeq(tok, 2, Len(tok)), Len(tok) - 1, 10), 5)

\* whether an immediate fits a field of w bits under its signedness
InRange(val, w, signed) ==
  IF signed THEN 0 - 2 ^ (w - 1) <= val /\ val < 2 ^ (w - 1)
  ELSE 0 <= val /\ val < 2 ^ w

\* the w-bit two's-complement text of an immediate
encImm(val, w) == ToBin(val % (2 ^ w), w)

\* a CSR operand: a known name or an integer literal
encCSR(tok) ==
  IF \E a \in DOMAIN CSR : CSR[a] = tok
  THEN ToBin(CHOOSE a \in DOMAIN CSR : CSR[a] = tok, 12)
  ELSE ToBin(parseInt(tok), 12)

\* a fence mask: the letters of iorw that are present
encMem(tok) ==
  [i \in 1..4 |->
     IF \E j \in 1..Len(tok) : Char(tok, j) = Char("iorw", i) THEN "1"
     ELSE "0"]

\* the four bits of a fence mask as text
encMemText(tok) ==
  encMem(tok)[1] \o encMem(tok)[2] \o encMem(tok)[3] \o encMem(tok)[4]

\* whether a table holds the mnemonic, and the key under which it does
Has(table, mne) == \E k \in DOMAIN table : table[k] = M(mne)

KeyOf(table, mne) == CHOOSE k \in DOMAIN table : table[k] = M(mne)

\* whether a nested table of the table holds the mnemonic, and its keys
HasSub(table, mne) ==
  \E k \in DOMAIN table : ~table[k].str /\ Has(table[k].sub, mne)

OuterKeyOf(table, mne) ==
  CHOOSE k \in DOMAIN table : ~table[k].str /\ Has(table[k].sub, mne)

InnerKeyOf(table, mne) == KeyOf(table[OuterKeyOf(table, mne)].sub, mne)

\* the rounding mode the encoder emits: the assembly line names none
DefaultRm == "111"

\* R-type of OP / OP-32: rd, rs1, rs2
encodeOP(tok, table, opcode) ==
  SubSeq(KeyOf(table, tok[1]), 1, 7) \o encReg(tok[4]) \o encReg(tok[3])
    \o SubSeq(KeyOf(table, tok[1]), 8, 10) \o encReg(tok[2]) \o opcode

\* the funct5 and fmt under which ISA_OP_FP holds a mnemonic
OpFpKeyOf(mne) ==
  CHOOSE k \in (DOMAIN ISA_OP_FP) \X {"00", "01"} :
    \/ ISA_OP_FP[k[1]][k[2]] = M(mne)
    \/ ~ISA_OP_FP[k[1]][k[2]].str /\ Has(ISA_OP_FP[k[1]][k[2]].sub, mne)

\* the funct3 or rs2 the nested table fixes, "" when there is none
OpFpSubKeyOf(mne, k) ==
  IF ISA_OP_FP[k[1]][k[2]].str THEN ""
  ELSE KeyOf(ISA_OP_FP[k[1]][k[2]].sub, mne)

\* R-type of OP-FP: rd, rs1 [, rs2]
encodeOP_FP(tok) ==
  With(OpFpKeyOf(tok[1]), LAMBDA k :
  With(OpFpSubKeyOf(tok[1], k), LAMBDA sub :
    k[1] \o k[2]
      \o (IF Len(sub) = 5 THEN sub
          ELSE IF Len(tok) >= 4 THEN encReg(tok[4]) ELSE "00000")
      \o encReg(tok[3])
      \o (IF Len(sub) = 3 THEN sub ELSE DefaultRm)
      \o encReg(tok[2]) \o OPCODE.OP_FP))

\* R-type of AMO: rd, rs2, (rs1); rd, (rs1) for lr
encodeAMO(tok) ==
  SubSeq(KeyOf(ISA_AMO, tok[1]), 1, 5) \o "0" \o "0"
    \o (IF IsLr(tok[1]) THEN "00000" ELSE encReg(tok[3]))
    \o encReg(tok[Len(tok)]) \o SubSeq(KeyOf(ISA_AMO, tok[1]), 6, 8)
    \o encReg(tok[2]) \o OPCODE.AMO

\* R4-type: rd, rs1, rs2, rs3
encodeR4(tok, table, opcode) ==
  encReg(tok[5]) \o KeyOf(table, tok[1]) \o encReg(tok[4]) \o encReg(tok[3])
    \o DefaultRm \o encReg(tok[2]) \o opcode

\* I-type with a signed 12-bit immediate: the operand tokens are given
encodeIType(rd, rs1, imm, funct3, opcode) ==
  IF ~InRange(parseInt(imm), 12, TRUE) THEN "ImmOutOfRange"
  ELSE encImm(parseInt(imm), 12) \o encReg(rs1) \o funct3 \o encReg(rd)
         \o opcode

\* I-type shift: rd, rs1, shamt; the 6-bit variant when shamt >= 32
encodeShift(tok, cfg, shtyp, funct3, opcode) ==
  With(parseInt(tok[4]), LAMBDA shamt :
    IF opcode = OPCODE.OP_IMM_32
    THEN IF ~InRange(shamt, 5, FALSE) THEN "ShiftOutOfRange"
         ELSE "0" \o shtyp \o "00000" \o encImm(shamt, 5) \o encReg(tok[3])
                \o funct3 \o encReg(tok[2]) \o opcode
    ELSE IF ~InRange(shamt, 6, FALSE) THEN "ShiftOutOfRange"
    ELSE IF shamt >= 32
         THEN IF cfg.ISA # COPTS_ISA.RV64I THEN "ShiftOutOfRange"
              ELSE "0" \o shtyp \o "0000" \o encImm(shamt, 6)
                     \o encReg(tok[3]) \o funct3 \o encReg(tok[2]) \o opcode
         ELSE "0" \o shtyp \o "00000" \o encImm(shamt, 5) \o encReg(tok[3])
                \o funct3 \o encReg(tok[2]) \o opcode)

\* OP-IMM / OP-IMM-32: rd, rs1, imm or a shift
encodeOP_IMM(tok, cfg, table, opcode) ==
  IF HasSub(table, tok[1])
  THEN encodeShift(tok, cfg, InnerKeyOf(table, tok[1]),
                   OuterKeyOf(table, tok[1]), opcode)
  ELSE IF tok[1] \in {"slli", "slliw"}
       THEN encodeShift(tok, cfg, "0", KeyOf(table, tok[1]), opcode)
       ELSE encodeIType(tok[2], tok[3], tok[4], KeyOf(table, tok[1]), opcode)

\* fence pred, succ; fence.i
encodeMISC_MEM(tok) ==
  IF tok[1] = "fence"
  THEN "0000" \o encMemText(tok[2]) \o encMemText(tok[3]) \o "00000"
         \o KeyOf(ISA_MISC_MEM, tok[1]) \o "00000" \o OPCODE.MISC_MEM
  ELSE "000000000000" \o "00000" \o KeyOf(ISA_MISC_MEM, tok[1]) \o "00000"
         \o OPCODE.MISC_MEM

\* ecall / ebreak; the Zicsr family: rd, csr, rs1 or uimm5
encodeSYSTEM(tok) ==
  IF HasSub(ISA_SYSTEM, tok[1])
  THEN InnerKeyOf(ISA_SYSTEM, tok[1]) \o "00000"
         \o OuterKeyOf(ISA_SYSTEM, tok[1]) \o "00000" \o OPCODE.SYSTEM
  ELSE encCSR(tok[3])
         \o (IF Char(KeyOf(ISA_SYSTEM, tok[1]), 1) = "0" THEN encReg(tok[4])
             ELSE encImm(parseInt(tok[4]), 5))
         \o KeyOf(ISA_SYSTEM, tok[1]) \o encReg(tok[2]) \o OPCODE.SYSTEM

\* S-type: rs2, imm(rs1)
encodeSTORE(tok, table, opcode) ==
  IF ~InRange(parseInt(tok[3]), 12, TRUE) THEN "ImmOutOfRange"
  ELSE With(encImm(parseInt(tok[3]), 12), LAMBDA imm :
         SubSeq(imm, 1, 7) \o encReg(tok[2]) \o encReg(tok[4])
           \o KeyOf(table, tok[1]) \o SubSeq(imm, 8, 12) \o opcode)

\* B-type: rs1, rs2, offset; the offset is signed, 13 bits, bit 0 dropped
encodeBRANCH(tok) ==
  IF ~InRange(parseInt(tok[4]), 13, TRUE) THEN "ImmOutOfRange"
  ELSE With(encImm(parseInt(tok[4]), 13), LAMBDA imm :
         SubSeq(imm, 1, 1) \o SubSeq(imm, 3, 8) \o encReg(tok[3])
           \o encReg(tok[2]) \o KeyOf(ISA_BRANCH, tok[1]) \o SubSeq(imm, 9, 12)
           \o SubSeq(imm, 2, 2) \o OPCODE.BRANCH)

\* U-type: rd, imm; the immediate is unsigned, 20 bits
encodeUType(tok, opcode) ==
  IF ~InRange(parseInt(tok[3]), 20, FALSE) THEN "ImmOutOfRange"
  ELSE encImm(parseInt(tok[3]), 20) \o encReg(tok[2]) \o opcode

\* J-type: rd, offset; the offset is signed, 21 bits, bit 0 dropped
encodeJAL(tok) ==
  IF ~InRange(parseInt(tok[3]), 21, TRUE) THEN "ImmOutOfRange"
  ELSE With(encImm(parseInt(tok[3]), 21), LAMBDA imm :
         SubSeq(imm, 1, 1) \o SubSeq(imm, 11, 20) \o SubSeq(imm, 10, 10)
           \o SubSeq(imm, 2, 9) \o encReg(tok[2]) \o OPCODE.JAL)

\* the word of a tokenised line whose mnemonic the tables hold
encodeTokens(tok, cfg) ==
  With(tok[1], LAMBDA mne :
  CASE Has(ISA_OP, mne)        -> encodeOP(tok, ISA_OP, OPCODE.OP)
    [] Has(ISA_OP_32, mne)     -> encodeOP(tok, ISA_OP_32, OPCODE.OP_32)
    [] mne \in OpFpMnes        -> encodeOP_FP(tok)
    [] Has(ISA_AMO, mne)       -> encodeAMO(tok)
    [] Has(ISA_MADD, mne)      -> encodeR4(tok, ISA_MADD, OPCODE.MADD)
    [] Has(ISA_MSUB, mne)      -> encodeR4(tok, ISA_MSUB, OPCODE.MSUB)
    [] Has(ISA_NMADD, mne)     -> encodeR4(tok, ISA_NMADD, OPCODE.NMADD)
    [] Has(ISA_NMSUB, mne)     -> encodeR4(tok, ISA_NMSUB, OPCODE.NMSUB)
    [] mne = "jalr"            ->
         encodeIType(tok[2], tok[3], tok[4], "000", OPCODE.JALR)
    [] Has(ISA_LOAD, mne)      ->
         encodeIType(tok[2], tok[4], tok[3], KeyOf(ISA_LOAD, mne), OPCODE.LOAD)
    [] Has(ISA_LOAD_FP, mne)   ->
         encodeIType(tok[2], tok[4], tok[3], KeyOf(ISA_LOAD_FP, mne),
                     OPCODE.LOAD_FP)
    [] Has(ISA_OP_IMM, mne) \/ HasSub(ISA_OP_IMM, mne) ->
         encodeOP_IMM(tok, cfg, ISA_OP_IMM, OPCODE.OP_IMM)
    [] Has(ISA_OP_IMM_32, mne) \/ HasSub(ISA_OP_IMM_32, mne) ->
         encodeOP_IMM(tok, cfg, ISA_OP_IMM_32, OPCODE.OP_IMM_32)
    [] Has(ISA_MISC_MEM, mne)  -> encodeMISC_MEM(tok)
    [] Has(ISA_SYSTEM, mne) \/ HasSub(ISA_SYSTEM, mne) -> encodeSYSTEM(tok)
    [] Has(ISA_STORE, mne)     -> encodeSTORE(tok, ISA_STORE, OPCODE.STORE)
    [] Has(ISA_STORE_FP, mne)  ->
         encodeSTORE(tok, ISA_STORE_FP, OPCODE.STORE_FP)
    [] Has(ISA_BRANCH, mne)    -> encodeBRANCH(tok)
    [] mne = "lui"             -> encodeUType(tok, OPCODE.LUI)
    [] mne = "auipc"           -> encodeUType(tok, OPCODE.AUIPC)
    [] mne = "jal"             -> encodeJAL(tok))

\* encode(assembly_line, config): the 32-bit word, or the name of the error
encode(asm, cfg) ==
  With(tokenize(asm), LAMBDA tok :
    IF tok = <<>> \/ tok[1] \notin Mnemonics THEN "UnknownMnemonic"
    ELSE IF IsaMismatch(cfg, ISA[tok[1]].isa) THEN "IsaMismatch"
    ELSE encodeTokens(tok, cfg))

---------------------------------------------------------------------------
(* The inputs the model draws *)

\* five-bit slots: the registers 0..MaxReg
Regs == {ToBin(n, 5) : n \in 0..MaxReg}

\* five-bit slots that are part of an immediate: also all ones
Five == Regs \cup {"11111"}

Funct3s == {ToBin(n, 3) : n \in 0..7}

Configs == [ISA : {COPTS_ISA.RV32I, COPTS_ISA.RV64I}, ABI : BOOLEAN]

\* the upper seven bits of an immediate
HiImm == {"0000000", "0111111", "1000000", "1111111"}

HiOP == {"0000000", "0100000", "0000001", "1000000"}

HiOP_FP ==
  {f5 \o fmt : f5 \in DOMAIN ISA_OP_FP, fmt \in {"00", "01"}}
    \cup {"1111100", "0000010"}

HiAMO ==
  {f5 \o aqrl : f5 \in {"00010", "00011", "00001", "00000", "11100", "11111"},
                aqrl \in {"00", "10", "01"}}

\* shift immediates: the shtyp pattern, shamt[5] and stray upper bits
HiOP_IMM ==
  HiImm \cup {"0100000", "0000001", "0100001", "0000010", "0010000"}

\* fm and pred[3:1]; pred[0] and succ
HiMISC_MEM == {"0000000", "0000111", "0000001", "0000100", "1000111"}

LoMISC_MEM == {"00000", "11111", "10000", "00001", "01010"}

\* funct12 / csr
HiSYSTEM == {"0000000", "0011000", "1100000", "1111111"}

LoSYSTEM == {"00000", "00001", "00101", "11111"}

\* imm[4:1] and imm[11] of a branch
LoBRANCH == {"00000", "00001", "11101", "11110"}

HiR4 == {rs3 \o fmt : rs3 \in Regs, fmt \in {"00", "01", "10"}}

BadOpcodes == {"0000000", "1111111", "0110010"}

\* every binary text of the given length
Texts(w) == {ToBin(n, w) : n \in 0..(2 ^ w - 1)}

\* the widths of the immediates the decoder parses
ImmWidths == {5, 6, 12, 13, 20, 21}

\* the extreme texts of a width: 0...0, 01...1, 10...0, 1...1
Extremes(w) ==
  {ToBin(0, w), ToBin(2 ^ (w - 1) - 1, w), ToBin(2 ^ (w - 1), w),
   ToBin(2 ^ w - 1, w)}

ImmTexts ==
  UNION {Texts(w) : w \in 1..MaxImmLen} \cup UNION {Extremes(w) : w \in ImmWidths}

---------------------------------------------------------------------------
(* The web page (web-ui/main.js): one search input, a results box with a   *)
(* label and a rows container, and the URL hash.  The markup of the        *)
(* container is a record: which rows it holds and the text of its data     *)
(* elements.                                                               *)

\* the rows container as the page delivers it: the results layout, with
\* the hex-data, format-data, set-data, set-subtitle-data and asm-data
\* elements
ResultsLayout(hex, format, set, subtitle, asm) ==
  [rows |-> "results", hex |-> hex, format |-> format, set |-> set,
   subtitle |-> subtitle, asm |-> asm, name |-> "", details |-> ""]

\* lines 110-131: the container emptied and the four error rows appended
ErrorRows(name, details) ==
  [rows |-> "error", hex |-> "", format |-> "", set |-> "", subtitle |-> "",
   asm |-> "", name |-> name, details |-> details]

\* obj has the property name
HasProp(obj, name) == name \in DOMAIN obj

\* the text an element shows after innerText = obj[name]
PropText(obj, name) == IF HasProp(obj, name) THEN obj[name] ELSE "undefined"

RECURSIVE Replace(_, _, _)
\* s with every occurrence of a replaced by b
Replace(s, a, b) ==
  IF Len(s) < Len(a) THEN s
  ELSE IF SubSeq(s, 1, Len(a)) = a
       THEN b \o Replace(SubSeq(s, Len(a) + 1, Len(s)), a, b)
       ELSE Char(s, 1) \o Replace(SubSeq(s, 2, Len(s)), a, b)

\* line 55, window.location.hash = value: the hash the location then
\* reports, with spaces percent-encoded; empty for the empty value
SetHash(value) == IF value = "" THEN "" ELSE "#" \o Replace(value, " ", "%20")

\* line 35: decodeURIComponent(window.location.hash.replace('#', ''))
HashValue(hash) ==
  IF hash = "" THEN ""
  ELSE Replace(SubSeq(hash, 2, Len(hash)), "%20", " ")

\* the text is made of the characters of alphabet
MadeOf(s, alphabet) ==
  \A i \in 1..Len(s) : \E k \in 1..Len(alphabet) : Char(alphabet, k) = Char(s, i)

\* 32 binary digits
IsBinText(s) == Len(s) = 32 /\ MadeOf(s, "01")

\* 8 hex digits with an optional 0x
IsHexText(s) ==
  \/ Len(s) = 8 /\ MadeOf(s, "0123456789abcdef")
  \/ Len(s) = 10 /\ SubSeq(s, 1, 2) = "0x"
       /\ MadeOf(SubSeq(s, 3, 10), "0123456789abcdef")

RECURSIVE HexToBin(_)
\* the binary text of hex digits
HexToBin(s) ==
  IF Len(s) = 0 THEN ""
  ELSE ToBin(DigitVal(Char(s, 1)), 4) \o HexToBin(SubSeq(s, 2, Len(s)))

RECURSIVE BinToHex(_)
\* the lowercase hex text of a binary text of 4n digits
BinToHex(b) ==
  IF Len(b) = 0 THEN ""
  ELSE HexDigit(ParseBin(SubSeq(b, 1, 4))) \o BinToHex(SubSeq(b, 5, Len(b)))

DefaultConfig == [ISA |-> COPTS_ISA.RV32I, ABI |-> FALSE]

\* the properties of an Instruction
InstructionResult(w, d) ==
  [hex |-> BinToHex(w), bin |-> w, asm |-> d.asm, fmt |-> d.fmt,
   isa |-> d.isa, binFrags |-> d.binFrags, asmFrags |-> d.asmFrags]

\* new Instruction(input): the word of the input, decoded; thrown is the
\* error raised, "" when the Instruction is constructed
Instruction(input) ==
  With(IF IsBinText(input) THEN input
       ELSE IF IsHexText(input)
            THEN HexToBin(SubSeq(input, Len(input) - 7, Len(input)))
            ELSE encode(input, DefaultConfig), LAMBDA w :
    IF ~IsBinText(w) THEN [thrown |-> w, obj |-> <<>>]
    ELSE With(convertBinToAsm(w, DefaultConfig), LAMBDA d :
           IF d.ok THEN [thrown |-> "", obj |-> InstructionResult(w, d)]
           ELSE [thrown |-> d.err, obj |-> <<>>]))

\* renderInstructionData(instruction) on the page p = [ResultState,
\* container, label]: the page when the function returns or throws, and
\* what it threw ("" when it returned)
renderInstructionData(instruction, p) ==
  With(IF p.ResultState.isErrorShown
       THEN [ResultState |-> [p.ResultState EXCEPT !.isErrorShown = FALSE],
             container   |-> p.ResultState.resultInnerHtml,
             label       |-> "[ Results ]"]
       ELSE p, LAMBDA q :
    IF q.container.rows # "results"
    THEN [thrown |-> "TypeError", p |-> q]
    ELSE With([q EXCEPT
                 !.container.hex      = PropText(instruction, "hex"),
                 !.container.format   = PropText(instruction, "format"),
                 !.container.set      = PropText(instruction, "isa"),
                 !.container.subtitle = PropText(instruction, "setSubtitle")],
              LAMBDA r :
           IF ~HasProp(instruction, "fragments")
           THEN [thrown |-> "TypeError", p |-> r]
           ELSE With([r EXCEPT !.container.asm =
                                  PropText(instruction, "assembly")],
                     LAMBDA t :
                  [thrown |-> "",
                   p |-> [t EXCEPT !.ResultState.resultInnerHtml =
                                      t.container]])))

\* renderError that leaves the label alone
renderErrorKeepLabel(error, p) ==
  [ResultState |-> IF ~p.ResultState.isErrorShown
                   THEN [isErrorShown |-> TRUE, resultInnerHtml |-> p.container]
                   ELSE p.ResultState,
   container   |-> ErrorRows(error, error),
   label       |-> p.label]

\* renderError({name: error, details: error}) on the page p
renderError(error, p) ==
  [ResultState |-> IF ~p.ResultState.isErrorShown
                   THEN [isErrorShown |-> TRUE, resultInnerHtml |-> p.container]
                   ELSE p.ResultState,
   container   |-> ErrorRows(error, error),
   label       |-> IF ~p.ResultState.isErrorShown THEN "[ Error ]"
                   ELSE p.label]

\* lines 50-54: the try block of the keydown handler on the trimmed value
TryRender(value, p) ==
  With(Instruction(value), LAMBDA i :
    IF i.thrown # "" THEN renderError(i.thrown, p)
    ELSE With(renderInstructionData(i.obj, p), LAMBDA o :
           IF o.thrown # "" THEN renderError(o.thrown, o.p) ELSE o.p))

\* the texts the search input holds in the model: words in binary and hex,
\* assembly lines, texts that are neither, with and without blanks around
Inputs ==
  { "00000000000000000000000000110011",
    "  00000000110001011000010100110011 ",
    "0x00c58533",
    "ffffffff",
    "add x1, x0, x1",
    " lw x1, -4(x0)",
    "  foo ",
    "",
    "   " }

\* keys other than Enter
OtherKeys == {"a", "Tab"}

\* the example words of the documentation:
\*   0x00c58533  add x10, x11, x12
\*   0xffc12283  lw x5, -4(x2)
\*   0x30529073  csrrw x0, mtvec, x5
\*   0x100022af  lr.w x5, (x0)
\*   0x02809093  slli x1, x1, 40
\*   0x0ff0000f  fence iorw, iorw
\*   0xfff00093  addi x1, x0, -1
\*   0x00000073  ecall
Examples ==
  { "00000000110001011000010100110011",
    "11111111110000010010001010000011",
    "00110000010100101001000001110011",
    "00010000000000000010001010101111",
    "00000010100000001001000010010011",
    "00001111111100000000000000001111",
    "11111111111100000000000010010011",
    "00000000000000000000000001110011" }

---------------------------------------------------------------------------
(* The state machine: decoders are constructed on input words *)

\* no instruction has been decoded yet
NoDecoder == Failed("none")

\* the page before its script handled any event: lines 20-26, with the
\* results layout and the label of the page as delivered
PageDelivered ==
  /\ containerHtml = ResultsLayout("", "", "", "", "")
  /\ labelText = "[ Results ]"
  /\ ResultState = [isErrorShown |-> FALSE, resultInnerHtml |-> containerHtml]
  /\ inputValue = ""
  /\ boxDisplay = "none"
  /\ lastKey = ""
  /\ loaded = FALSE

Init ==
  /\ bin = ""
  /\ config = [ISA |-> COPTS_ISA.RV32I, ABI |-> FALSE]
  /\ res = NoDecoder
  /\ immText = ""
  /\ immSign = TRUE
  /\ immOut = 0
  /\ PageDelivered
  /\ locationHash = ""

\* new Decoder(b, cfg): a Decoder is constructed once, on its input, and is
\* not changed afterwards
Construct(b, cfg) ==
  /\ bin' = b
  /\ config' = cfg
  /\ res' = convertBinToAsm(b, cfg)
  /\ UNCHANGED <<immText, immSign, immOut, page>>

NewOP ==
  /\ bin = ""
  /\ \E hi \in HiOP, rs2 \in Regs, rs1 \in Regs, f3 \in Funct3s, rd \in Regs,
     opc \in {OPCODE.OP, OPCODE.OP_32}, cfg \in Configs :
    Construct(hi \o rs2 \o rs1 \o f3 \o rd \o opc, cfg)

NewOP_FP ==
  /\ bin = ""
  /\ \E hi \in HiOP_FP, rs2 \in Regs, rs1 \in Regs, f3 \in Funct3s, rd \in Regs,
     cfg \in Configs :
    Construct(hi \o rs2 \o rs1 \o f3 \o rd \o OPCODE.OP_FP, cfg)

NewAMO ==
  /\ bin = ""
  /\ \E hi \in HiAMO, rs2 \in Regs, rs1 \in Regs, f3 \in Funct3s, rd \in Regs,
     cfg \in Configs :
    Construct(hi \o rs2 \o rs1 \o f3 \o rd \o OPCODE.AMO, cfg)

NewJALR ==
  /\ bin = ""
  /\ \E hi \in HiImm, lo \in Five, rs1 \in Regs, f3 \in Funct3s, rd \in Regs,
     cfg \in Configs :
    Construct(hi \o lo \o rs1 \o f3 \o rd \o OPCODE.JALR, cfg)

NewLOAD ==
  /\ bin = ""
  /\ \E hi \in HiImm, lo \in Five, rs1 \in Regs, f3 \in Funct3s, rd \in Regs,
     opc \in {OPCODE.LOAD, OPCODE.LOAD_FP}, cfg \in Configs :
    Construct(hi \o lo \o rs1 \o f3 \o rd \o opc, cfg)

NewOP_IMM ==
  /\ bin = ""
  /\ \E hi \in HiOP_IMM, lo \in Five, rs1 \in Regs, f3 \in Funct3s, rd \in Regs,
     opc \in {OPCODE.OP_IMM, OPCODE.OP_IMM_32}, cfg \in Configs :
    Construct(hi \o lo \o rs1 \o f3 \o rd \o opc, cfg)

NewMISC_MEM ==
  /\ bin = ""
  /\ \E hi \in HiMISC_MEM, lo \in LoMISC_MEM, rs1 \in Regs, f3 \in Funct3s,
     rd \in Regs, cfg \in Configs :
    Construct(hi \o lo \o rs1 \o f3 \o rd \o OPCODE.MISC_MEM, cfg)

NewSYSTEM ==
  /\ bin = ""
  /\ \E hi \in HiSYSTEM, lo \in LoSYSTEM, rs1 \in Regs, f3 \in Funct3s,
     rd \in Regs, cfg \in Configs :
    Construct(hi \o lo \o rs1 \o f3 \o rd \o OPCODE.SYSTEM, cfg)

NewSTORE ==
  /\ bin = ""
  /\ \E hi \in HiImm, rs2 \in Regs, rs1 \in Regs, f3 \in Funct3s, lo \in Five,
     opc \in {OPCODE.STORE, OPCODE.STORE_FP}, cfg \in Configs :
    Construct(hi \o rs2 \o rs1 \o f3 \o lo \o opc, cfg)

NewBRANCH ==
  /\ bin = ""
  /\ \E hi \in HiImm, rs2 \in Regs, rs1 \in Regs, f3 \in Funct3s,
     lo \in LoBRANCH, cfg \in Configs :
    Construct(hi \o rs2 \o rs1 \o f3 \o lo \o OPCODE.BRANCH, cfg)

NewUType ==
  /\ bin = ""
  /\ \E hi \in HiImm, a \in Five, c \in Five, f3 \in Funct3s, rd \in Regs,
     opc \in {OPCODE.LUI, OPCODE.AUIPC}, cfg \in Configs :
    Construct(hi \o a \o c \o f3 \o rd \o opc, cfg)

NewJAL ==
  /\ bin = ""
  /\ \E hi \in HiImm, a \in Five, c \in Five, f3 \in Funct3s, rd \in Regs,
     cfg \in Configs :
    Construct(hi \o a \o c \o f3 \o rd \o OPCODE.JAL, cfg)

NewR4 ==
  /\ bin = ""
  /\ \E hi \in HiR4, rs2 \in Regs, rs1 \in Regs, f3 \in Funct3s, rd \in Regs,
     opc \in {OPCODE.MADD, OPCODE.MSUB, OPCODE.NMADD, OPCODE.NMSUB},
     cfg \in Configs :
    Construct(hi \o rs2 \o rs1 \o f3 \o rd \o opc, cfg)

NewInvalid ==
  /\ bin = ""
  /\ \E rs1 \in Regs, f3 \in Funct3s, rd \in Regs, opc \in BadOpcodes,
     cfg \in Configs :
    Construct("0000000" \o "00000" \o rs1 \o f3 \o rd \o opc, cfg)

NewExample ==
  /\ bin = ""
  /\ \E w \in Examples, cfg \in Configs :
    Construct(w, cfg)

Next ==
  \/ NewOP
  \/ NewOP_FP
  \/ NewAMO
  \/ NewJALR
  \/ NewLOAD
  \/ NewOP_IMM
  \/ NewMISC_MEM
  \/ NewSYSTEM
  \/ NewSTORE
  \/ NewBRANCH
  \/ NewUType
  \/ NewJAL
  \/ NewR4
  \/ NewInvalid
  \/ NewExample

Spec == Init /\ [][Next]_vars

---------------------------------------------------------------------------
(* decImm on its own: the function applied to bounded binary texts *)

ApplyDecImm ==
  /\ immText = ""
  /\ \E t \in ImmTexts, s \in BOOLEAN :
    /\ immText' = t
    /\ immSign' = s
    /\ immOut' = decImm(t, s)
    /\ UNCHANGED <<bin, config, res, page>>

NextImm == ApplyDecImm

SpecImm == Init /\ [][NextImm]_vars

---------------------------------------------------------------------------
(* The page: its load and the keydown events of the search input *)

\* the hashes the page can be opened with
InitialHashes == {SetHash(Trim(v)) : v \in Inputs}

InitUI ==
  /\ bin = ""
  /\ config = DefaultConfig
  /\ res = NoDecoder
  /\ immText = ""
  /\ immSign = TRUE
  /\ immOut = 0
  /\ PageDelivered
  /\ locationHash \in InitialHashes

\* the page as the functions of the script see it
Page ==
  [ResultState |-> ResultState, container |-> containerHtml,
   label |-> labelText]

\* lines 48-55: the keydown handler past its guard, the input holding v
HandleEnter(v) ==
  /\ inputValue' = v
  /\ lastKey' = "Enter"
  /\ boxDisplay' = "initial"
  /\ \E q \in {TryRender(Trim(v), Page)} :
       /\ ResultState' = q.ResultState
       /\ containerHtml' = q.container
       /\ labelText' = q.label
  /\ locationHash' = SetHash(Trim(v))

\* window.onload
OnLoad ==
  /\ ~loaded
  /\ loaded' = TRUE
  /\ IF locationHash = ""
     THEN UNCHANGED <<ResultState, containerHtml, labelText, locationHash,
                      inputValue, boxDisplay, lastKey>>
     ELSE HandleEnter(HashValue(locationHash))
  /\ UNCHANGED <<bin, config, res, immText, immSign, immOut>>

\* a keydown of Enter on the search input, which holds v
KeyDownEnter ==
  /\ loaded
  /\ \E v \in Inputs : HandleEnter(v)
  /\ UNCHANGED <<loaded, bin, config, res, immText, immSign, immOut>>

\* a keydown of another key on the search input, which holds v
KeyDownOther ==
  /\ loaded
  /\ \E v \in Inputs, k \in OtherKeys :
       /\ inputValue' = v
       /\ lastKey' = k
  /\ UNCHANGED <<ResultState, containerHtml, labelText, locationHash,
                 boxDisplay, loaded>>
  /\ UNCHANGED <<bin, config, res, immText, immSign, immOut>>

NextUI ==
  \/ OnLoad
  \/ KeyDownEnter
  \/ KeyDownOther

SpecUI == InitUI /\ [][NextUI]_vars

---------------------------------------------------------------------------
(* Properties.  The word of a state is bin, the configuration config, and  *)
(* res the Decoder constructed on them.  The fields of the word are named  *)
(* here by their bit positions in the RISC-V layout.                       *)

\* a Decoder has been constructed
Decoded == bin # ""

\* bit i of a 32-bit word, bit 0 being the last character
BitAt(w, i) == Char(w, 32 - i)

\* bits hi..lo of a 32-bit word
BitsOf(w, hi, lo) == SubSeq(w, 32 - hi, 32 - lo)

OpcodeOf(w) == BitsOf(w, 6, 0)

Funct3Of(w) == BitsOf(w, 14, 12)

\* the word with bit i flipped
FlipBit(w, i) ==
  SubSeq(w, 1, 31 - i) \o (IF BitAt(w, i) = "1" THEN "0" ELSE "1")
    \o SubSeq(w, 33 - i, 32)

RECURSIVE ConcatBits(_, _)
\* the bits of the fragments from index i on, in list order
ConcatBits(frags, i) ==
  IF i > Len(frags) THEN "" ELSE frags[i].bits \o ConcatBits(frags, i + 1)

RECURSIVE SumWidths(_, _)
\* the sum of the bit widths of the fragments from index i on
SumWidths(frags, i) ==
  IF i > Len(frags) THEN 0 ELSE Len(frags[i].bits) + SumWidths(frags, i + 1)

\* C1: for every word and configuration for which decode succeeds, the
\* fragments of binFrags, in list order, partition the word: their widths
\* sum to 32 and their bits concatenate to the input word.
C1_BinFragsPartition ==
  (Decoded /\ res.ok) =>
    /\ SumWidths(res.binFrags, 1) = 32
    /\ ConcatBits(res.binFrags, 1) = bin

\* C2: for every word that decode accepts under a configuration, encoding
\* the decoded assembly under the same configuration gives the word again.
C2_RoundTrip ==
  (Decoded /\ res.ok) => encode(res.asm, config) = bin

\* C3: for every word that decodes and every bit position 0..31, decoding
\* the word with that bit flipped, under the same configuration, either
\* raises an error or yields an assembly different from the word's.
C3_BitFlipChangesDecode ==
  (Decoded /\ res.ok) =>
    \A i \in 0..31 :
      \/ ~convertBinToAsm(FlipBit(bin, i), config).ok
      \/ convertBinToAsm(FlipBit(bin, i), config).asm # res.asm

\* decImm has been applied
Applied == immText # ""

\* C4: decImm on a binary text t of length n: with sign extension asked
\* for and a leading '1' the result is the two's-complement value of t
\* (unsigned(t) - 2^n, a negative number of n bits), otherwise the unsigned
\* value; a 12-bit immediate lies in -2048..2047, with 0xfff giving -1,
\* 0x800 giving -2048 and 0x7ff giving 2047.
C4_DecImmSignExtends ==
  Applied =>
    /\ ToBin(immOut % (2 ^ Len(immText)), Len(immText)) = immText
    /\ IF immSign /\ Char(immText, 1) = "1"
       THEN /\ 0 - 2 ^ (Len(immText) - 1) <= immOut
            /\ immOut < 0
       ELSE /\ 0 <= immOut
            /\ immOut < 2 ^ Len(immText)
    /\ (immSign /\ Len(immText) = 12) => immOut \in (0 - 2048)..2047
    /\ (immSign /\ immText = "111111111111") => immOut = 0 - 1
    /\ (immSign /\ immText = "100000000000") => immOut = 0 - 2048
    /\ (immSign /\ immText = "011111111111") => immOut = 2047

\* decImm was applied with sign extension to the 12-bit text of 0x800
C4_Witness ==
  immText = "100000000000" /\ immSign /\ immOut = 0 - 2048

\* the word is LUI or AUIPC
IsUType == Decoded /\ OpcodeOf(bin) \in {"0110111", "0010111"}

\* C5: for every LUI or AUIPC word the decoded immediate operand is the
\* unsigned value of the raw 20-bit field bits[31:12], in 0..2^20-1, also
\* when bit 31 is set.
C5_UTypeImmUnsigned ==
  IsUType =>
    /\ res.ok
    /\ res.asmFrags[3].asm = ToString(ParseBin(BitsOf(bin, 31, 12)))
    /\ res.asmFrags[3].bits = BitsOf(bin, 31, 12)

\* an OP-32 or OP-IMM-32 word
IsWordSized == Decoded /\ OpcodeOf(bin) \in {"0111011", "0011011"}

\* the funct7 and funct3 of addw, subw, sllw, srlw, sraw
BaseOP_32 ==
  {"0000000000", "0100000000", "0000000001", "0000000101", "0100000101"}

\* an OP-32 word of the base instruction set
IsBaseOP_32 ==
  /\ Decoded
  /\ OpcodeOf(bin) = "0111011"
  /\ (BitsOf(bin, 31, 25) \o Funct3Of(bin)) \in BaseOP_32

\* an addiw word: OP-IMM-32 with funct3 000
IsAddiw == Decoded /\ OpcodeOf(bin) = "0011011" /\ Funct3Of(bin) = "000"

\* ld, lwu and sd words
IsLoadStore64 ==
  /\ Decoded
  /\ \/ OpcodeOf(bin) = "0000011" /\ Funct3Of(bin) \in {"011", "110"}
     \/ OpcodeOf(bin) = "0100011" /\ Funct3Of(bin) = "011"

IsShiftOP_IMM ==
  Decoded /\ OpcodeOf(bin) = "0010011" /\ Funct3Of(bin) \in {"001", "101"}

\* an OP-IMM-32 shift word: slliw, srliw or sraiw
IsShiftOP_IMM_32 ==
  Decoded /\ OpcodeOf(bin) = "0011011" /\ Funct3Of(bin) \in {"001", "101"}

\* bits 31 and 29..26 of the word are zero: the upper six bits of the imm
\* slot are 0, the shift type, 0000
UpperSixClear == BitAt(bin, 31) = "0" /\ BitsOf(bin, 29, 26) = "0000"

\* C7: with config.ISA = RV32I every OP-IMM shift word with bit 25 set is
\* rejected with ShiftOutOfRange, whatever its upper bits are (the error is
\* raised before the shift type pattern is validated); with config.ISA =
\* RV64I the same word is decoded with a 6-bit shamt: it is never out of
\* range, an accepted word has the shamt bits[25:20] in 32..63 and isa
\* RV64I, and it is accepted exactly when its upper six bits match.
C7_ShiftOutOfRangeFirst ==
  (IsShiftOP_IMM /\ BitAt(bin, 25) = "1") =>
    /\ config.ISA = "RV32I" => (~res.ok /\ res.err = "ShiftOutOfRange")
    /\ config.ISA = "RV64I" =>
         /\ res.err # "ShiftOutOfRange"
         /\ res.ok <=> UpperSixClear
         /\ ~res.ok => res.err = "BadShtyp"
         /\ res.ok =>
              /\ res.asmFrags[4].bits = BitsOf(bin, 25, 20)
              /\ res.asmFrags[4].asm = ToString(ParseBin(BitsOf(bin, 25, 20)))
              /\ ParseBin(res.asmFrags[4].bits) \in 32..63
              /\ res.isa = "RV64I"

\* under RV32I a shift word with bit 25 set and stray upper bits was
\* rejected as out of range
C7_Witness ==
  /\ IsShiftOP_IMM
  /\ BitAt(bin, 25) = "1"
  /\ ~UpperSixClear
  /\ config.ISA = "RV32I"
  /\ res.err = "ShiftOutOfRange"

\* the shift type of a shift mnemonic: 1 for the arithmetic right shifts
ShtypOf(mne) == IF mne \in {"srai", "sraiw"} THEN "1" ELSE "0"

\* the mnemonic a shift word names by its opcode, funct3 and, for the right
\* shifts, bit 30
ShiftMneOf(w) ==
  CASE OpcodeOf(w) = "0010011" /\ Funct3Of(w) = "001" -> "slli"
    [] OpcodeOf(w) = "0011011" /\ Funct3Of(w) = "001" -> "slliw"
    [] OpcodeOf(w) = "0010011" /\ BitAt(w, 30) = "0"  -> "srli"
    [] OpcodeOf(w) = "0010011" /\ BitAt(w, 30) = "1"  -> "srai"
    [] OpcodeOf(w) = "0011011" /\ BitAt(w, 30) = "0"  -> "srliw"
    [] OTHER                                          -> "sraiw"

\* the shift amount of the word is read as six bits
SixBitShamt(w, cfg) ==
  OpcodeOf(w) = "0010011" /\ (cfg.ISA = "RV64I" \/ BitAt(w, 25) = "1")

\* the upper bits of the imm slot equal the pattern of the mnemonic's shift
\* type: 0, shtyp, 00000 with a 5-bit shamt, 0, shtyp, 0000 with a 6-bit one
UpperMatches(w, cfg) ==
  IF SixBitShamt(w, cfg)
  THEN BitsOf(w, 31, 26) = "0" \o ShtypOf(ShiftMneOf(w)) \o "0000"
  ELSE BitsOf(w, 31, 25) = "0" \o ShtypOf(ShiftMneOf(w)) \o "00000"

\* C8: every OP-IMM / OP-IMM-32 shift word that decode accepts has the upper
\* bits of its imm slot equal to the pattern of the decoded mnemonic's shift
\* type, and a shift word whose upper bits differ, slli with bit 30 set
\* included, is rejected.
C8_ShtypValidated ==
  (IsShiftOP_IMM \/ IsShiftOP_IMM_32) =>
    /\ res.ok => (res.mne = ShiftMneOf(bin) /\ UpperMatches(bin, config))
    /\ ~UpperMatches(bin, config) => ~res.ok

\* C9: every OP-IMM-32 shift word with bit 25 set is rejected with an error
\* under every configuration; an accepted OP-IMM-32 shift has a 5-bit shamt
\* in 0..31.
C9_WordShiftFiveBits ==
  IsShiftOP_IMM_32 =>
    /\ BitAt(bin, 25) = "1" => (~res.ok /\ res.err = "BadShtyp")
    /\ res.ok =>
         /\ BitAt(bin, 25) = "0"
         /\ res.asmFrags[4].bits = BitsOf(bin, 24, 20)
         /\ res.asmFrags[4].asm = ToString(ParseBin(BitsOf(bin, 24, 20)))
         /\ ParseBin(res.asmFrags[4].bits) \in 0..31

\* under RV64I an OP-IMM-32 shift word with bit 25 set, and no other stray
\* bit, was rejected
C9_Witness ==
  /\ IsShiftOP_IMM_32
  /\ BitsOf(bin, 31, 25) = "0000001"
  /\ config.ISA = "RV64I"
  /\ ~res.ok
  /\ res.err = "BadShtyp"

\* a fence word: MISC-MEM with funct3 000 and the reserved rd and rs1 zero
IsFence ==
  /\ Decoded
  /\ OpcodeOf(bin) = "0001111"
  /\ Funct3Of(bin) = "000"
  /\ BitsOf(bin, 11, 7) = "00000"
  /\ BitsOf(bin, 19, 15) = "00000"

\* the letters of 'iorw' whose bit of the mask is set, the first bit being i
Letters(mask) ==
  (IF Char(mask, 1) = "1" THEN "i" ELSE "")
    \o (IF Char(mask, 2) = "1" THEN "o" ELSE "")
    \o (IF Char(mask, 3) = "1" THEN "r" ELSE "")
    \o (IF Char(mask, 4) = "1" THEN "w" ELSE "")

\* C10: for a fence word each of the 4-bit pred and succ masks is rendered
\* as the letters of 'iorw' whose bit is set, in that order, the MSB being
\* 'i' and the LSB 'w'; if pred or succ is 0000, decode fails with
\* InvalidFence and there is no result.
C10_FenceMasks ==
  IsFence =>
    IF BitsOf(bin, 27, 24) = "0000" \/ BitsOf(bin, 23, 20) = "0000"
    THEN res = Failed("InvalidFence")
    ELSE /\ res.ok
         /\ res.asmFrags[2].asm = Letters(BitsOf(bin, 27, 24))
         /\ res.asmFrags[3].asm = Letters(BitsOf(bin, 23, 20))
         /\ res.asm = "fence " \o Letters(BitsOf(bin, 27, 24)) \o ", "
                        \o Letters(BitsOf(bin, 23, 20))

\* the fence word 0x0ff0000f was decoded to fence iorw, iorw
C10_Witness ==
  /\ IsFence
  /\ BitsOf(bin, 31, 20) = "000011111111"
  /\ res.ok
  /\ res.asm = "fence iorw, iorw"

\* a fence or fence.i word: MISC-MEM with funct3 000 or 001
IsMiscMemWord ==
  Decoded /\ OpcodeOf(bin) = "0001111" /\ Funct3Of(bin) \in {"000", "001"}

\* an ecall or ebreak word: SYSTEM with funct3 000 and funct12 0 or 1
IsTrapWord ==
  /\ Decoded
  /\ OpcodeOf(bin) = "1110011"
  /\ Funct3Of(bin) = "000"
  /\ BitsOf(bin, 31, 20) \in {"000000000000", "000000000001"}

\* a Zicsr word: SYSTEM with the funct3 of csrrw .. csrrci
IsZicsrWord ==
  Decoded /\ OpcodeOf(bin) = "1110011" /\ Funct3Of(bin) \notin {"000", "100"}

\* the rd or the rs1 field of the word is not zero
RegsNonZero == BitsOf(bin, 11, 7) # "00000" \/ BitsOf(bin, 19, 15) # "00000"

\* C11: no MISC-MEM word (fence, fence.i) and no SYSTEM trap word (ecall,
\* ebreak) with a non-zero rd or rs1 decodes: each is rejected with
\* NonZeroReserved; with both fields zero the error is not raised; Zicsr
\* words are not subject to the check and decode with any rd and rs1.
C11_ReservedRegsZero ==
  Decoded =>
    /\ ((IsMiscMemWord \/ IsTrapWord) /\ RegsNonZero)
         => res = Failed("NonZeroReserved")
    /\ ((IsMiscMemWord \/ IsTrapWord) /\ ~RegsNonZero)
         => res.err # "NonZeroReserved"
    /\ IsZicsrWord => (res.ok /\ res.err # "NonZeroReserved")

\* an ecall word with rs1 = x1 and rd = x0 was rejected
C11_Witness ==
  /\ IsTrapWord
  /\ BitsOf(bin, 19, 15) = "00001"
  /\ BitsOf(bin, 11, 7) = "00000"
  /\ res = Failed("NonZeroReserved")

\* a BRANCH word with a valid funct3
IsBranchWord ==
  Decoded /\ OpcodeOf(bin) = "1100011" /\ Funct3Of(bin) \notin {"010", "011"}

\* the 13-bit two's-complement value of
\* bit 31, bit 7, bits 30..25, bits 11..8, 0
BranchOffsetOf(w) ==
  (IF BitAt(w, 31) = "1" THEN 0 - 4096 ELSE 0)
    + (IF BitAt(w, 7) = "1" THEN 2048 ELSE 0)
    + 32 * ParseBin(BitsOf(w, 30, 25))
    + 2 * ParseBin(BitsOf(w, 11, 8))

\* C12: for every BRANCH word with a valid funct3 the decoded offset is the
\* 13-bit two's-complement value of bit31, bit7, bits[30:25], bits[11:8], 0:
\* it is even and in -4096..4094, and 0xfe000ee3 decodes to offset -4.
C12_BranchOffset ==
  IsBranchWord =>
    /\ res.ok
    /\ res.asmFrags[4].asm = ToString(BranchOffsetOf(bin))
    /\ BranchOffsetOf(bin) % 2 = 0
    /\ BranchOffsetOf(bin) \in (0 - 4096)..4094
    /\ bin = "11111110000000000000111011100011"
         => (res.asmFrags[4].asm = "-4" /\ res.mne = "beq")

\* the word 0xfe000ee3 was decoded to a branch with offset -4
C12_Witness ==
  /\ IsBranchWord
  /\ bin = "11111110000000000000111011100011"
  /\ res.ok
  /\ res.asmFrags[4].asm = "-4"

\* an OP-FP word that decoded
IsOpFpResult == Decoded /\ OpcodeOf(bin) = "1010011" /\ res.ok

\* the kind of register a fragment's token names: its first character
RegKind(frag) == Char(frag.asm, 1)

\* the token of a fragment is the register of the given kind numbered by
\* the fragment's bits
NamesReg(frag, kind) == frag.asm = kind \o ToString(ParseBin(frag.bits))

\* C13: for every successfully decoded OP-FP word: if the first bit of
\* funct5 (bit 31) is 0, rd and rs1 are float registers; if it is 1, exactly
\* one of them is an integer register: rs1 when the fourth bit of funct5
\* (bit 28) is 1, rd otherwise; rs2, when it appears, is a float register.
C13_OpFpRegisterKinds ==
  IsOpFpResult =>
    /\ res.asmFrags[2].bits = BitsOf(bin, 11, 7)
    /\ res.asmFrags[3].bits = BitsOf(bin, 19, 15)
    /\ BitAt(bin, 31) = "0"
         => (NamesReg(res.asmFrags[2], "f") /\ NamesReg(res.asmFrags[3], "f"))
    /\ (BitAt(bin, 31) = "1" /\ BitAt(bin, 28) = "1")
         => (NamesReg(res.asmFrags[2], "f") /\ NamesReg(res.asmFrags[3], "x"))
    /\ (BitAt(bin, 31) = "1" /\ BitAt(bin, 28) = "0")
         => (NamesReg(res.asmFrags[2], "x") /\ NamesReg(res.asmFrags[3], "f"))
    /\ Len(res.asmFrags) \in {3, 4}
    /\ Len(res.asmFrags) = 4
         => (/\ res.asmFrags[4].bits = BitsOf(bin, 24, 20)
             /\ NamesReg(res.asmFrags[4], "f"))

\* an OP-FP word with funct5 = 11010 (fcvt.s.w) was decoded with a float rd
\* and an integer rs1
C13_Witness ==
  /\ IsOpFpResult
  /\ BitsOf(bin, 31, 27) = "11010"
  /\ RegKind(res.asmFrags[2]) = "f"
  /\ RegKind(res.asmFrags[3]) = "x"

MemOpcodes ==
  {OPCODE.LOAD, OPCODE.LOAD_FP, OPCODE.STORE, OPCODE.STORE_FP, OPCODE.AMO}

\* the mem flag is set on the rs1 fragments of the memory opcodes and
\* nowhere else, and every such result has one base operand
MemFlagOnBase ==
  /\ \A i \in 1..Len(res.binFrags) :
       res.binFrags[i].mem
         <=> (OpcodeOf(bin) \in MemOpcodes /\ res.binFrags[i].field = "rs1")
  /\ \A i \in 1..Len(res.asmFrags) :
       res.asmFrags[i].mem
         <=> (OpcodeOf(bin) \in MemOpcodes /\ res.asmFrags[i].field = "rs1")
  /\ OpcodeOf(bin) \in MemOpcodes
       => Cardinality({i \in 2..Len(res.asmFrags) : res.asmFrags[i].mem}) = 1

\* a token that is a number
IsNumber(tok) ==
  /\ Len(tok) > 0
  /\ \E k \in 1..11 : Char("-0123456789", k) = Char(tok, 1)

\* the operand list from operand i on: tokens separated by ", ", the base
\* operand in parentheses and attached to a number right before it
RECURSIVE OperandsFrom(_, _, _)
OperandsFrom(frags, abi, i) ==
  IF i > Len(frags) THEN ""
  ELSE LET tok  == IF abi THEN convertRegToAbi(frags[i].asm) ELSE frags[i].asm
           sep  == IF i = 2 THEN ""
                   ELSE IF frags[i].mem /\ IsNumber(frags[i - 1].asm)
                        THEN "" ELSE ", "
           text == IF frags[i].mem THEN "(" \o tok \o ")" ELSE tok
       IN  sep \o text \o OperandsFrom(frags, abi, i + 1)

\* the mnemonic alone, or the mnemonic, one space and the operand list
ExpectedAsm(frags, abi) ==
  IF Len(frags) = 1 THEN frags[1].asm
  ELSE frags[1].asm \o " " \o OperandsFrom(frags, abi, 2)

\* C14 (as stated): in every successful decode the mem flag is true on
\* exactly the rs1 fragment of LOAD, LOAD-FP, STORE, STORE-FP and AMO
\* results, and asm is the mnemonic, one space and the asmFrags operand
\* tokens separated by ", ", the mem fragment in parentheses and attached
\* to an immediate right before it.
C14_AsmFromFragTokens ==
  (Decoded /\ res.ok) =>
    /\ MemFlagOnBase
    /\ res.asm = ExpectedAsm(res.asmFrags, FALSE)

\* C14 (amended): the same, where with config.ABI on every register token
\* is rendered under its ABI name, and an instruction without operands is
\* rendered as the mnemonic alone.
C14_AsmFromFragTokensAbi ==
  (Decoded /\ res.ok) =>
    /\ MemFlagOnBase
    /\ res.asm = ExpectedAsm(res.asmFrags, config.ABI)

\* the examples lw x5, -4(x2) and lr.w x5, (x0) were decoded, as was a store
C14_WitnessLw ==
  /\ bin = "11111111110000010010001010000011"
  /\ res.ok /\ ~config.ABI
  /\ res.asm = "lw x5, -4(x2)"
  /\ res.asmFrags[4].mem /\ ~res.asmFrags[3].mem

NonOperandFields ==
  {"opcode", "funct3", "funct5", "funct7", "funct12", "fmt", "aq", "rl",
   "fm", "rm", "shtyp", "shtyp[11:6]", "shtyp[11:5]"}

\* the rs2 field of a result whose assembly has no rs2 operand: lr.w, lr.d
\* and the single-source OP-FP instructions
Rs2NotConsumed ==
  \/ OpcodeOf(bin) = OPCODE.AMO /\ res.mne \in {"lr.w", "lr.d"}
  \/ OpcodeOf(bin) = OPCODE.OP_FP /\ Len(res.asmFrags) = 3

\* fragment frag of binFrags is not an operand of the rendered assembly
NonOperand(frag) ==
  \/ frag.field \in NonOperandFields
  \/ frag.field \in {"rd", "rs1"} /\ (IsMiscMemWord \/ IsTrapWord)
  \/ frag.field = "rs2" /\ Rs2NotConsumed

AsmTokens == {res.asmFrags[j].asm : j \in 1..Len(res.asmFrags)}

\* C15: in every successful decode every binFrags fragment that is not an
\* operand of the rendered assembly (opcode, funct fields, fmt, aq, rl, fm,
\* rm, shtyp, the zero rd/rs1 of traps and fences, an rs2 field the mnemonic
\* does not consume) carries the mnemonic as its token, and every other
\* binFrags fragment carries a token found among the asmFrags tokens.
C15_NonOperandsCarryMnemonic ==
  (Decoded /\ res.ok) =>
    \A i \in 1..Len(res.binFrags) :
      IF NonOperand(res.binFrags[i])
      THEN res.binFrags[i].asm = res.mne
      ELSE res.binFrags[i].asm \in AsmTokens

\* the decode of the current word under RV64I, same ABI setting
UnderRV64I == convertBinToAsm(bin, [config EXCEPT !.ISA = COPTS_ISA.RV64I])

\* a word was decoded successfully under RV32I
DecodedRV32I == Decoded /\ config.ISA = COPTS_ISA.RV32I /\ res.ok

\* results a and b of a shift word agree except for the isa and the split
\* of the 12 immediate bits into the shtyp and shamt fragments
SameButShiftSplit(a, b) ==
  /\ a.mne = b.mne
  /\ Len(a.asmFrags) = 4 /\ Len(b.asmFrags) = 4
  /\ \A i \in 1..3 : a.asmFrags[i] = b.asmFrags[i]
  /\ a.asmFrags[4].asm = b.asmFrags[4].asm
  /\ Len(a.binFrags) = 6 /\ Len(b.binFrags) = 6
  /\ \A i \in 3..6 : a.binFrags[i] = b.binFrags[i]
  /\ \A i \in 1..2 : a.binFrags[i].asm = b.binFrags[i].asm
  /\ a.binFrags[1].bits \o a.binFrags[2].bits
       = b.binFrags[1].bits \o b.binFrags[2].bits

\* C16: every word that decodes successfully with config.ISA = RV32I also
\* decodes successfully with config.ISA = RV64I and the same ABI setting,
\* with the same asm and fmt; the two results differ at most in the reported
\* isa and in the split of the shift-amount bits into fragments.
C16_RV32IDecodesUnderRV64I ==
  DecodedRV32I =>
    /\ UnderRV64I.ok
    /\ UnderRV64I.asm = res.asm
    /\ UnderRV64I.fmt = res.fmt
    /\ IF IsShiftOP_IMM
       THEN SameButShiftSplit(res, UnderRV64I)
       ELSE UnderRV64I = res

\* an OP-IMM shift was decoded under RV32I, and under RV64I it reports
\* RV64I and splits the immediate bits as 6 + 6
C16_Witness ==
  /\ DecodedRV32I /\ IsShiftOP_IMM
  /\ res.isa = "RV32I" /\ UnderRV64I.isa = "RV64I"
  /\ Len(res.binFrags[2].bits) = 5
  /\ Len(UnderRV64I.binFrags[2].bits) = 6

---------------------------------------------------------------------------
(* Properties of the page *)

\* the last keydown was Enter, so the page is as its handler left it
AfterEnter == lastKey = "Enter"

\* constructing the Instruction of the handled input succeeds
Constructs == Instruction(Trim(inputValue)).thrown = ""

\* C17: whenever Enter is pressed on an input for which constructing the
\* Instruction succeeds, the keydown handler ends in the results state:
\* ResultState.isErrorShown is false, the label reads '[ Results ]' and the
\* container holds the results layout.
C17_EnterOnValidShowsResults ==
  (AfterEnter /\ Constructs) =>
    /\ ~ResultState.isErrorShown
    /\ labelText = "[ Results ]"
    /\ containerHtml.rows = "results"

\* a step of the keydown handler past its guard
EnterStep == lastKey' = "Enter"

\* constructing the Instruction of the input the step handles succeeds
ConstructsNext ==
  \E v \in Inputs :
    Trim(v) = Trim(inputValue') /\ Instruction(Trim(v)).thrown = ""

\* the saved markup is a results layout
SavedIsResultsLayout == ResultState.resultInnerHtml.rows = "results"

\* markup a is markup b up to the text of its data elements
SameLayout(a, b) == a.rows = b.rows

\* C18: after any sequence of Enter events ResultState.resultInnerHtml
\* holds results-layout markup and never the error rows: an Enter that
\* finds an error shown and ends with an error shown leaves the saved
\* markup unchanged (the markup is captured only on the transition from
\* not-error to error), and an Enter on an input that constructs, finding
\* an error shown, restores the container to the markup saved before the
\* first of the errors.
C18_SavedMarkupIsResultsLayout ==
  [][ /\ SavedIsResultsLayout'
      /\ (EnterStep /\ ResultState.isErrorShown /\ ResultState'.isErrorShown)
           => ResultState'.resultInnerHtml = ResultState.resultInnerHtml
      /\ (EnterStep /\ ResultState.isErrorShown /\ ConstructsNext)
           => (/\ ~ResultState'.isErrorShown
               /\ SameLayout(containerHtml', ResultState.resultInnerHtml)) ]_vars

\* C19: at the end of every run of the keydown handler on Enter,
\* ResultState.isErrorShown is true iff the label reads '[ Error ]' and the
\* container shows the error rows, and false iff the label reads
\* '[ Results ]'; every Enter sets the URL hash to the trimmed input,
\* whether the instruction was rendered or an error was shown; a keydown of
\* another key leaves ResultState, the label, the container and the URL
\* hash unchanged.
C19_FlagMatchesLabelAndHash ==
  [][ /\ EnterStep =>
           /\ ResultState'.isErrorShown
                <=> (labelText' = "[ Error ]" /\ containerHtml'.rows = "error")
           /\ ~ResultState'.isErrorShown <=> labelText' = "[ Results ]"
           /\ locationHash' = SetHash(Trim(inputValue'))
      /\ ~EnterStep =>
           UNCHANGED <<ResultState, labelText, containerHtml, locationHash>>
    ]_vars

\* Enter was handled on an input with blanks around it that does not
\* construct: the error is shown and the hash holds the trimmed input
C19_WitnessError ==
  /\ AfterEnter
  /\ inputValue = "  foo "
  /\ ~Constructs
  /\ ResultState.isErrorShown
  /\ labelText = "[ Error ]"
  /\ containerHtml.rows = "error"
  /\ locationHash = "#foo"

============================================================================
